---- MODULE Spec2Model ----
(***************************************************************************)
(* A model of the storefront theme's coordination layer: the product form   *)
(* (variant re-render and add-to-cart), the search drawer (debounce and     *)
(* predictive search), the filter drawer (applyFilters), the cart line      *)
(* items (quantity debounce), the four overlays (open / close / keydown)    *)
(* and the cart drawer's reaction to cart events.                           *)
(*                                                                         *)
(* The browser runs one task at a time: every action below is one task of   *)
(* the event loop (a user event, a timer callback, or the continuation of   *)
(* an async function after an await), executed atomically up to its next    *)
(* await.  A call of an async function is a record whose pc names the       *)
(* await it is suspended at.  Each custom element is one variable holding   *)
(* a record of its fields and of the DOM it owns; an element that is not    *)
(* on the page is the record Absent.  Fields described as "observer" are    *)
(* not program state: they record what a property needs to refer to.        *)
(***************************************************************************)
EXTENDS Integers, Sequences, FiniteSets, TLC

\* ------------------------------------------------------------------ bounds
\* renderVariantSections calls / handleSubmit calls explored
MaxRender == 2
MaxSubmit == 2
\* fetchResults calls explored
MaxSearch == 2
\* updateItem calls explored
MaxUpdate == 2
\* CartDrawer.refresh calls explored
MaxRefresh == 3
\* applyFilters calls explored
MaxApply == 2
\* fetchCartCount calls explored
MaxCount == 2
\* handleAdd calls explored
MaxAdd == 2

\* ------------------------------------------------------------- data values
\* dismiss clicks handled on one announcement bar
MaxClick == 2

Absent == [attached |-> FALSE]

\* A call of an async function is a record: pc names the await it is
\* suspended at, the other fields are the locals it still needs.  A call not
\* made yet and a call that has returned hold nothing else.
NotCalled == [pc |-> "new"]
Returned == [pc |-> "done"]

\* productData.variants: variant ids with their "available" flag
VariantIds == {1, 2}
Available(v) == v = 1
NoVariant == 0

\* what the body of a /cart/add.js error response can be: a description,
\* NoDesc (description missing or falsy) or BadJson (the body does not parse)
Descs == {"Only 2 available", "Sold out"}
NoDesc == "<none>"
BadJson == "<malformed>"
FallbackMsg == "Failed to add to cart"
NetworkMsg == "Failed to fetch"
ParseMsg == "Unexpected token"
UpdateFailedMsg == "Failed to update cart"

CartTypes == {"drawer", "page"}

\* the debounce delay of setTimeout(..., 300), in clock ticks of 100 ms
Delay == 3

\* values of the search input, as sequences of characters
InputValues == { <<"a">>, <<" ", "a", " ">>, <<" ", "a", "b">>, <<"c", "d">> }
\* what /search/suggest.json can answer: no resources.results at all, three
\* empty groups, or at least one hit
SearchData == {"no-resources", "empty", "hits"}
MinQueryLength == 2

\* line-item keys of the cart and the quantities a quantity input can hold
Keys == {"k1", "k2"}
Quantities == {1, 2}

\* the overlays, and the elements that can hold focus: the page's own
\* (document.body and a link outside every overlay) and, per overlay, its
\* focusable descendants in document order.  "detached" stands for any
\* element that a fragment merge has removed from the document.
Overlays == {"cart", "filter", "menu", "search"}
Focusables(o) ==
  CASE o = "cart"   -> <<"cart.close", "cart.item">>
    [] o = "filter" -> <<"filter.close", "filter.link">>
    [] o = "menu"   -> <<"menu.close", "menu.link">>
    [] o = "search" -> <<"search.close", "search.input">>
PageElements == {"body", "page.link"}
Null == "null"

\* the class each overlay puts on document.body while open
BodyClass(o) ==
  CASE o = "cart"   -> "drawer-open"
    [] o = "filter" -> "filter-drawer-open"
    [] o = "menu"   -> "menu-open"
    [] o = "search" -> "search-drawer-open"

\* cart states the server can render into the cart-drawer section; a
\* fragment is the cart it shows, whether it holds a <cart-drawer> element
\* and whether that element holds a footer
Carts == {"A", "B"}
Fragments == [cart : Carts, drawer : BOOLEAN, footer : BOOLEAN]

\* collection URLs: the filter state and whether section_id is in the query
Filters == {"all", "red"}
Urls == [filter : Filters, section : BOOLEAN]
\* the regions applyFilters merges
Regions == {"[data-products]", "[data-active-filters]", "[data-sorting]",
            ".filter-count", ".filter-body", ".filter-footer"}

VARIABLES
  pf,          \* <product-form>
  sd,          \* <search-drawer>: the predictive search
  ci,          \* <cart-items>
  cd,          \* <cart-drawer>: cart state and fragment refresh
  fd,          \* <filter-drawer>: applyFilters, location and history
  dom,         \* the document: focus, body classes, keydown listeners and
               \* each attached overlay's open state
  timers,      \* the browser's pending setTimeout timers
  dispatched,  \* the events document.dispatchEvent delivered in the last task
  seq,         \* observer: the run of open()/close() calls just made on one overlay
  qa,          \* <quick-add>
  icon,        \* <cart-icon>
  pg,          \* <product-gallery>
  qs,          \* <quantity-selector>
  hs,          \* <hotspot-image>
  ab           \* <announcement-bar>

vars == <<pf, sd, ci, cd, fd, dom, timers, dispatched, seq, qa, icon, pg, qs, hs, ab>>

\* the smaller elements, which most tasks leave alone
widgets == <<qa, icon, pg, hs, ab>>

\* ======================================================================
\* browser timers: setTimeout / clearTimeout and the passing of time
\* ======================================================================

\* A pending timer: its owner, the ticks left until it is due, the arguments
\* its callback closes over, and whether the owner's debounceTimer field
\* still holds its handle.

\* a clearTimeout that cancels nothing
clearTimeout_none(owner, pending) == pending

\* clearTimeout(owner.debounceTimer): the timer the field refers to is cancelled
clearTimeout(owner, pending) == {t \in pending : ~(t.owner = owner /\ t.held)}

\* owner.debounceTimer = setTimeout(callback, 300): a timer the field previously
\* referred to keeps running, but the field no longer holds its handle
setTimeout(owner, args, pending) ==
  {IF t.owner = owner THEN [t EXCEPT !.held = FALSE] ELSE t : t \in pending}
    \cup {[owner |-> owner, left |-> Delay, args |-> args, held |-> TRUE]}

Pending(owner) == {t \in timers : t.owner = owner}

\* 100 ms pass for every pending timer
elapse(pending) == {[t EXCEPT !.left = t.left - 1] : t \in pending}
cap(n) == IF n < Delay THEN n + 1 ELSE Delay

CartKinds == {"cart:item-added", "cart:updated"}
NoCartEvent(evs) == \A i \in 1..Len(evs) : evs[i].kind \notin CartKinds

\* ======================================================================
\* the document and the overlay protocol shared by CartDrawer, FilterDrawer,
\* MobileMenu and SearchDrawer: open(), close(), handleKeydown(e), trapFocus()
\* ======================================================================

Range(s) == {s[i] : i \in 1..Len(s)}

\* the overlays with a trigger button ([aria-controls="<id>"]); <cart-drawer>
\* has none, the cart icon calls its open()
HasTrigger(o) == o # "cart"

\* an overlay as its connectedCallback leaves it, on the expected markup
ClosedOverlay ==
  [isOpen |-> FALSE, ariaHidden |-> "true", previouslyFocused |-> Null,
   expanded |-> "unset"]

\* ---- listeners for the domain events on document and for popstate on window
\* A listener is its event type, the element that registered it and whether
\* the element's handler field (this._onItemAdded, ...) still refers to it.

\* this._handler = ...; target.addEventListener(type, this._handler)
subscribe(listeners, owner, type) ==
  Append([i \in DOMAIN listeners |->
            IF listeners[i].owner = owner /\ listeners[i].type = type
              THEN [listeners[i] EXCEPT !.current = FALSE] ELSE listeners[i]],
         [type |-> type, owner |-> owner, current |-> TRUE])

\* target.removeEventListener(type, this._handler)
unsubscribe(listeners, owner, type) ==
  SelectSeq(listeners, LAMBDA l : ~(l.owner = owner /\ l.type = type /\ l.current))

\* some listener of `owner` for `type` is registered
Listening(d, owner, type) ==
  \E i \in DOMAIN d.listeners : d.listeners[i].owner = owner /\ d.listeners[i].type = type

\* the document with the overlays `attached` on the page, focus on `active`
Document(attached, active) ==
  LET cart == IF "cart" \in attached
                THEN subscribe(subscribe(<<>>, "cart", "cart:item-added"),
                               "cart", "cart:updated")
                ELSE <<>>
  IN
  [activeElement |-> active,
   bodyClasses   |-> {},
   keydown       |-> <<>>,      \* keydown listeners of document, in order of registration
   listeners     |-> IF "filter" \in attached
                       THEN subscribe(cart, "filter", "popstate") ELSE cart,
   detached      |-> {},        \* overlays removed from the document since
   overlay       |-> [o \in attached |-> ClosedOverlay]]

\* el is an element of the document: not one a fragment merge removed, and
\* not a descendant of an overlay that was removed
InDocument(d, el) ==
  /\ el # "detached"
  /\ \A o \in d.detached : el \notin Range(Focusables(o))

\* el.focus(): an element that is no longer in the document cannot take focus
focus(d, el) == IF InDocument(d, el) THEN [d EXCEPT !.activeElement = el] ELSE d

\* document.addEventListener('keydown', handler): registering the same
\* function again is a no-op
addEventListener(listeners, o) ==
  IF o \in Range(listeners) THEN listeners ELSE Append(listeners, o)

removeEventListener(listeners, o) == SelectSeq(listeners, LAMBDA x : x # o)

\* trapFocus(): focus the first focusable element of the overlay
trapFocus(d, o) ==
  IF Len(Focusables(o)) > 0 THEN focus(d, Focusables(o)[1]) ELSE d

\* the element open() moves focus to: trapFocus() for the cart and filter
\* drawers, closeBtn for the mobile menu, the search input for the search drawer
focusOnOpen(d, o) ==
  CASE o \in {"cart", "filter"} -> trapFocus(d, o)
    [] o = "menu"   -> focus(d, "menu.close")
    [] o = "search" -> focus(d, "search.input")

\* open(), from `this.previouslyFocused = document.activeElement` on
open(d, o) ==
  focusOnOpen(
    [d EXCEPT !.overlay[o] = [isOpen |-> TRUE,
                              ariaHidden |-> "false",
                              previouslyFocused |-> d.activeElement,
                              expanded |-> IF HasTrigger(o) THEN "true" ELSE @.expanded],
              !.bodyClasses = @ \cup {BodyClass(o)},
              !.keydown = addEventListener(@, o)],
    o)

\* a close() that forgets previouslyFocused without focusing it
close_noRestore(d, o) ==
  [d EXCEPT !.overlay[o] = [isOpen |-> FALSE,
                            ariaHidden |-> "true",
                            previouslyFocused |-> Null,
                            expanded |-> IF HasTrigger(o) THEN "false" ELSE @.expanded],
            !.bodyClasses = @ \ {BodyClass(o)},
            !.keydown = removeEventListener(@, o)]

\* a close() that leaves its keydown listener on document
close_keepsListener(d, o) ==
  LET prev == d.overlay[o].previouslyFocused
      shut == [d EXCEPT !.overlay[o] = [isOpen |-> FALSE,
                                        ariaHidden |-> "true",
                                        previouslyFocused |-> Null,
                                        expanded |-> IF HasTrigger(o) THEN "false"
                                                     ELSE @.expanded],
                        !.bodyClasses = @ \ {BodyClass(o)}]
  IN IF prev # Null THEN focus(shut, prev) ELSE shut

\* close()
close(d, o) ==
  LET prev == d.overlay[o].previouslyFocused
      shut == [d EXCEPT !.overlay[o] = [isOpen |-> FALSE,
                                        ariaHidden |-> "true",
                                        previouslyFocused |-> Null,
                                        expanded |-> IF HasTrigger(o) THEN "false"
                                                     ELSE @.expanded],
                        !.bodyClasses = @ \ {BodyClass(o)},
                        !.keydown = removeEventListener(@, o)]
  IN IF prev # Null THEN focus(shut, prev) ELSE shut

\* handleKeydown(e) of overlay o.  Only what the handler itself does: the
\* browser's own focus move for a Tab it does not prevent is UserFocus.
handleKeydown(d, o, key, shiftKey) ==
  LET focusable == Focusables(o)
      first == focusable[1]
      last == focusable[Len(focusable)]
  IN
  IF key = "Escape" THEN close(d, o)
  ELSE IF key # "Tab" THEN d
  ELSE IF Len(focusable) = 0 THEN d
  ELSE IF shiftKey /\ d.activeElement = first THEN focus(d, last)
  ELSE IF ~shiftKey /\ d.activeElement = last THEN focus(d, first)
  ELSE d

\* a keydown event on document: the listeners registered when the dispatch
\* starts run in order of registration; one removed meanwhile is skipped
RECURSIVE dispatchKeydown(_, _, _, _)
dispatchKeydown(d, listeners, key, shiftKey) ==
  IF listeners = <<>> THEN d
  ELSE dispatchKeydown(
         IF Head(listeners) \in Range(d.keydown)
           THEN handleKeydown(d, Head(listeners), key, shiftKey) ELSE d,
         Tail(listeners), key, shiftKey)

\* elements removed from the document by an innerHTML assignment: the ones
\* among `gone` lose focus to body, and references to them go stale
detach(d, gone) ==
  [d EXCEPT !.activeElement = IF @ \in gone THEN "body" ELSE @,
            !.overlay = [o \in DOMAIN @ |->
                           [@[o] EXCEPT !.previouslyFocused =
                              IF @ \in gone THEN "detached" ELSE @]]]

\* the element of overlay o is removed from the document: its descendants
\* leave with it and, if one of them had focus, focus falls back to body
remove(d, o) ==
  [d EXCEPT !.detached = @ \cup {o},
            !.activeElement = IF @ \in Range(Focusables(o)) THEN "body" ELSE @]

\* ---- observer of open()/close() call sequences on one overlay
\* phase: "o" after open(), "oo" after open();open(), "oc" after open();close(),
\* "ooc" after open();open();close(), "c" after close(), "cc" after
\* close();close(); E is the element focused before the first call and snap
\* the observable state after the first call.
Observable(d, o) ==
  [overlay       |-> d.overlay[o],
   activeElement |-> d.activeElement,
   bodyClasses   |-> d.bodyClasses,
   listeners     |-> Cardinality({i \in 1..Len(d.keydown) : d.keydown[i] = o})]

NoSeq ==
  [o |-> "", phase |-> "none", E |-> "",
   snap |-> [overlay |-> ClosedOverlay, activeElement |-> "", bodyClasses |-> {},
             listeners |-> 0]]

afterOpen(s, before, after, o) ==
  IF s.o = o /\ s.phase = "o" THEN [s EXCEPT !.phase = "oo"]
  ELSE [o |-> o, phase |-> "o", E |-> before.activeElement, snap |-> Observable(after, o)]

afterClose(s, after, o) ==
  IF s.o = o /\ s.phase \in {"o", "oo", "c"}
    THEN [s EXCEPT !.phase = CASE s.phase = "o" -> "oc"
                               [] s.phase = "oo" -> "ooc"
                               [] s.phase = "c" -> "cc"]
    ELSE [o |-> o, phase |-> "c", E |-> "", snap |-> Observable(after, o)]

\* ---- the user's tasks on the document

\* a keydown event reaches document
Keydown(key, shiftKey) ==
  /\ dom.keydown # <<>>
  /\ dom' = dispatchKeydown(dom, dom.keydown, key, shiftKey)
  /\ seq' = NoSeq
  /\ dispatched' = <<>>
  /\ UNCHANGED <<widgets, pf, sd, ci, cd, fd, timers, qs>>

\* the elements sequential focus navigation visits, in document order: the
\* page's link and the focusable descendants of the overlays that are open
Tabbable(d) ==
  LET shown(o) == IF o \in DOMAIN d.overlay /\ d.overlay[o].isOpen /\ o \notin d.detached
                    THEN Focusables(o) ELSE <<>>
  IN <<"page.link">> \o shown("menu") \o shown("search") \o shown("filter")
       \o shown("cart")

\* where the browser moves focus for a Tab that no handler prevented: the
\* next (Shift: previous) element in order; when the active element is not in
\* the order (body, after the focused element was removed) the starting point
\* is the browser's choice
TabTargets(d, shiftKey) ==
  LET order == Tabbable(d)
      n == Len(order)
      at == {i \in 1..n : order[i] = d.activeElement}
  IN IF at = {} THEN Range(order)
     ELSE {order[IF shiftKey THEN (IF i = 1 THEN n ELSE i - 1)
                             ELSE (IF i = n THEN 1 ELSE i + 1)] : i \in at}

\* the user presses Tab: the keydown listeners run; if none of them moved
\* focus (and called preventDefault) the browser moves it
Tab(shiftKey) ==
  /\ LET handled == dispatchKeydown(dom, dom.keydown, "Tab", shiftKey)
     IN IF handled # dom THEN dom' = handled
        ELSE \E el \in TabTargets(dom, shiftKey) : dom' = focus(dom, el)
  /\ seq' = NoSeq
  /\ dispatched' = <<>>
  /\ UNCHANGED <<widgets, pf, sd, ci, cd, fd, timers, qs>>

\* the user moves focus (a click or an unprevented Tab) to a page element or
\* to a focusable element of an open overlay
UserFocus(el) ==
  /\ el \in PageElements
             \cup UNION {Range(Focusables(o)) :
                           o \in {x \in DOMAIN dom.overlay : dom.overlay[x].isOpen}}
  /\ el # dom.activeElement
  /\ dom' = focus(dom, el)
  /\ seq' = NoSeq
  /\ dispatched' = <<>>
  /\ UNCHANGED <<widgets, pf, sd, ci, cd, fd, timers, qs>>

\* ---- MobileMenu  (src/unnamed/part_001)

\* the trigger's click listener, which disconnectedCallback removes: open()
MobileMenu_open ==
  /\ "menu" \in DOMAIN dom.overlay /\ "menu" \notin dom.detached
  /\ dom' = open(dom, "menu")
  /\ seq' = afterOpen(seq, dom, dom', "menu")
  /\ dispatched' = <<>>
  /\ UNCHANGED <<widgets, pf, sd, ci, cd, fd, timers, qs>>

\* the click listeners of the close button and of the overlay: close()
MobileMenu_close ==
  /\ "menu" \in DOMAIN dom.overlay /\ "menu" \notin dom.detached
  /\ dom' = close(dom, "menu")
  /\ seq' = afterClose(seq, dom', "menu")
  /\ dispatched' = <<>>
  /\ UNCHANGED <<widgets, pf, sd, ci, cd, fd, timers, qs>>

\* disconnectedCallback: the menu is removed from the page; the trigger's click
\* listener, the keydown listener and the body class are removed
MobileMenu_disconnectedCallback ==
  /\ "menu" \in DOMAIN dom.overlay /\ "menu" \notin dom.detached
  /\ dom' = [remove(dom, "menu") EXCEPT !.keydown = removeEventListener(@, "menu"),
                                        !.bodyClasses = @ \ {BodyClass("menu")}]
  /\ seq' = NoSeq
  /\ dispatched' = <<>>
  /\ UNCHANGED <<widgets, pf, sd, ci, cd, fd, timers, qs>>

\* ======================================================================
\* SearchDrawer  (src/unnamed/part_002)
\* ======================================================================

SearchIds == 1..MaxSearch

\* String.prototype.trim, on a sequence of characters
RECURSIVE TrimStart(_)
TrimStart(v) == IF v # <<>> /\ Head(v) = " " THEN TrimStart(Tail(v)) ELSE v
RECURSIVE TrimEnd(_)
TrimEnd(v) ==
  IF v # <<>> /\ v[Len(v)] = " " THEN TrimEnd(SubSeq(v, 1, Len(v) - 1)) ELSE v
Trim(v) == TrimEnd(TrimStart(v))

\* connectedCallback: the element after it is attached
SearchDrawer_connectedCallback ==
  [attached      |-> TRUE,
   requestId     |-> 0,
   debounceTimer |-> Null,          \* this.debounceTimer: Null or "handle"
   loading       |-> FALSE,         \* the 'is-loading' class
   results       |-> <<>>,          \* [data-results]: <<>> or <<query, data>> rendered
   empty         |-> [hidden |-> TRUE, text |-> <<>>],     \* [data-empty]
   fetch         |-> [r \in SearchIds |-> NotCalled],      \* fetchResults calls
   writer        |-> 0,             \* observer: id of the call that last rendered
   latestOk      |-> FALSE,         \* observer: the latest call's response was ok and parsed
   quiet         |-> Delay,         \* observer: ticks since the last onInput (capped at Delay)
   burstLast     |-> <<>>,          \* observer: <<query>> of the last onInput
   burstCalls    |-> 0,             \* observer: onInput calls of the current burst (up to 2)
   burstRuns     |-> <<>>]          \* observer: queries the timer ran fetchResults with
                                    \*           since the burst began

\* clearResults()
clearResults(s) == [s EXCEPT !.results = <<>>, !.empty.hidden = TRUE]

\* renderResults(data, query)
renderResults(s, data, query) ==
  IF data = "no-resources" THEN clearResults(s)
  ELSE IF data = "empty"
    THEN [s EXCEPT !.results = <<>>, !.empty = [hidden |-> FALSE, text |-> query]]
  ELSE [s EXCEPT !.empty.hidden = TRUE, !.results = <<query, data>>]

\* the finally block of fetchResults, for the call with id currentRequest
fetchFinally(s, currentRequest) ==
  [s EXCEPT !.fetch[currentRequest] = Returned,
            !.loading = IF currentRequest = s.requestId THEN FALSE ELSE s.loading]

\* onInput(): the input event of the search field, whose value is now `value`
SearchDrawer_onInput(value) ==
  LET query == Trim(value)
      cleared == IF sd.debounceTimer # Null
                   THEN clearTimeout("search", timers) ELSE timers
      seen == [sd EXCEPT !.quiet = 0,
                         !.burstLast = <<query>>,
                         !.burstRuns = IF sd.quiet >= Delay THEN <<>> ELSE @,
                         !.burstCalls = IF sd.quiet >= Delay THEN 1 ELSE 2]
  IN
  /\ sd.attached
  /\ sd.requestId < MaxSearch
  /\ IF Len(query) < MinQueryLength
       THEN /\ sd' = clearResults(seen)
            /\ timers' = cleared
       ELSE /\ sd' = [seen EXCEPT !.debounceTimer = "handle"]
            /\ timers' = setTimeout("search", query, cleared)
  /\ dispatched' = <<>>
  /\ UNCHANGED <<widgets, pf, ci, cd, fd, dom, seq, qs>>

\* the debounce timer t is due: its callback runs fetchResults(query) up to
\* the await of fetch
SearchDrawer_fetchResults(t) ==
  /\ sd # Absent
  /\ t \in timers /\ t.owner = "search" /\ t.left = 0
  /\ sd.requestId < MaxSearch
  /\ timers' = timers \ {t}
  /\ sd' = [sd EXCEPT !.requestId = @ + 1,
                      !.loading = TRUE,
                      !.fetch[sd.requestId + 1] = [pc |-> "fetch", query |-> t.args],
                      !.latestOk = FALSE,
                      !.burstRuns = Append(@, t.args)]
  /\ dispatched' = <<>>
  /\ UNCHANGED <<widgets, pf, ci, cd, fd, dom, seq, qs>>

\* fetchResults: the fetch promise resolves with a response
SearchDrawer_fetchResults_response(r, ok) ==
  LET s == [sd EXCEPT !.latestOk = IF r = sd.requestId THEN ok ELSE @]
  IN
  /\ sd # Absent
  /\ sd.fetch[r].pc = "fetch"
  /\ sd' = IF ~ok \/ r # sd.requestId
             THEN fetchFinally(s, r)
             ELSE [s EXCEPT !.fetch[r].pc = "json"]
  /\ dispatched' = <<>>
  /\ UNCHANGED <<widgets, pf, ci, cd, fd, dom, timers, seq, qs>>

\* fetchResults: the fetch promise rejects (network error)
SearchDrawer_fetchResults_reject(r) ==
  /\ sd # Absent
  /\ sd.fetch[r].pc = "fetch"
  /\ sd' = fetchFinally(sd, r)
  /\ dispatched' = <<>>
  /\ UNCHANGED <<widgets, pf, ci, cd, fd, dom, timers, seq, qs>>

\* fetchResults: response.json() resolves with data; renderResults(data, query)
SearchDrawer_fetchResults_json(r, data) ==
  /\ sd # Absent
  /\ sd.fetch[r].pc = "json"
  /\ sd' = fetchFinally(renderResults([sd EXCEPT !.writer = r], data, sd.fetch[r].query), r)
  /\ dispatched' = <<>>
  /\ UNCHANGED <<widgets, pf, ci, cd, fd, dom, timers, seq, qs>>

\* fetchResults: response.json() rejects (the body does not parse)
SearchDrawer_fetchResults_jsonReject(r) ==
  /\ sd # Absent
  /\ sd.fetch[r].pc = "json"
  /\ sd' = fetchFinally([sd EXCEPT !.latestOk = IF r = sd.requestId THEN FALSE ELSE @], r)
  /\ dispatched' = <<>>
  /\ UNCHANGED <<widgets, pf, ci, cd, fd, dom, timers, seq, qs>>

\* the trigger's click listener: open(); the listener stays on the trigger
\* when the drawer is removed
SearchDrawer_open ==
  /\ "search" \in DOMAIN dom.overlay
  /\ dom' = open(dom, "search")
  /\ seq' = afterOpen(seq, dom, dom', "search")
  /\ dispatched' = <<>>
  /\ UNCHANGED <<widgets, pf, sd, ci, cd, fd, timers, qs>>

\* the click listeners of the close button and of the overlay: close()
SearchDrawer_close ==
  /\ "search" \in DOMAIN dom.overlay /\ "search" \notin dom.detached
  /\ dom' = close(dom, "search")
  /\ seq' = afterClose(seq, dom', "search")
  /\ dispatched' = <<>>
  /\ UNCHANGED <<widgets, pf, sd, ci, cd, fd, timers, qs>>

\* disconnectedCallback: the drawer is removed from the page; a pending
\* debounce timer is cleared, nothing else is undone
SearchDrawer_disconnectedCallback ==
  /\ sd.attached
  /\ sd' = [sd EXCEPT !.attached = FALSE]
  /\ timers' = IF sd.debounceTimer # Null THEN clearTimeout("search", timers) ELSE timers
  /\ dom' = remove(dom, "search")
  /\ seq' = NoSeq
  /\ dispatched' = <<>>
  /\ UNCHANGED <<widgets, pf, ci, cd, fd, qs>>

SearchDrawerNext ==
  \/ \E v \in InputValues : SearchDrawer_onInput(v)
  \/ \E t \in timers : SearchDrawer_fetchResults(t)
  \/ \E r \in SearchIds, ok \in BOOLEAN : SearchDrawer_fetchResults_response(r, ok)
  \/ \E r \in SearchIds : SearchDrawer_fetchResults_reject(r)
  \/ \E r \in SearchIds, d \in SearchData : SearchDrawer_fetchResults_json(r, d)
  \/ \E r \in SearchIds : SearchDrawer_fetchResults_jsonReject(r)

\* ======================================================================
\* CartIcon  (src/assets/hotspot-image.js)
\* ======================================================================

CountIds == 1..MaxCount

\* connectedCallback: the element after it is attached, showing the count the
\* page was loaded with
CartIcon_connectedCallback ==
  [attached |-> TRUE,
   count    |-> "page-load",        \* cart whose item_count .cart-count shows
   fetch    |-> [k \in CountIds |-> NotCalled],    \* fetchCartCount calls
   fetches  |-> 0]                  \* number of fetchCartCount calls so far

\* the document after the icon's connectedCallback
CartIcon_connected(d) ==
  [d EXCEPT !.listeners = subscribe(subscribe(@, "icon", "cart:item-added"),
                                    "icon", "cart:updated")]

\* updateCount(count), on the expected markup
updateCount(i, cart) == [i EXCEPT !.count = cart]

\* fetchCartCount() up to the await of fetch('/cart.js')
fetchCartCount(i) ==
  [i EXCEPT !.fetches = @ + 1, !.fetch[i.fetches + 1] = [pc |-> "fetch"]]

\* observer, on the pages that watch it: the fetchCartCount calls in flight
\* that a count shown since has overtaken.  The count of a 'cart:updated'
\* overtakes every call in flight, the response of call k the calls issued
\* before k.
CountsInFlight(i) == {k \in CountIds : i.fetch[k].pc \in {"fetch", "json"}}
overtake(i, calls) ==
  IF "overtaken" \in DOMAIN i THEN [i EXCEPT !.overtaken = @ \cup calls] ELSE i

\* fetchCartCount: the fetch promise resolves with a response
CartIcon_fetchCartCount_response(k, ok) ==
  /\ icon # Absent
  /\ icon.fetch[k].pc = "fetch"
  /\ icon' = IF ok THEN [icon EXCEPT !.fetch[k].pc = "json"]
             ELSE [icon EXCEPT !.fetch[k] = Returned]
  /\ dispatched' = <<>>
  /\ UNCHANGED <<pf, sd, ci, cd, fd, dom, timers, seq, qa, pg, qs, hs, ab>>

\* fetchCartCount: the fetch promise or response.json() rejects; the catch
\* block swallows the error
CartIcon_fetchCartCount_reject(k) ==
  /\ icon # Absent
  /\ icon.fetch[k].pc \in {"fetch", "json"}
  /\ icon' = [icon EXCEPT !.fetch[k] = Returned]
  /\ dispatched' = <<>>
  /\ UNCHANGED <<pf, sd, ci, cd, fd, dom, timers, seq, qa, pg, qs, hs, ab>>

\* fetchCartCount: response.json() resolves with the cart; updateCount
CartIcon_fetchCartCount_json(k, cart) ==
  /\ icon # Absent
  /\ icon.fetch[k].pc = "json"
  /\ icon' = overtake(updateCount([icon EXCEPT !.fetch[k] = Returned], cart),
                      {x \in CountsInFlight(icon) : x < k})
  /\ dispatched' = <<>>
  /\ UNCHANGED <<pf, sd, ci, cd, fd, dom, timers, seq, qa, pg, qs, hs, ab>>

\* disconnectedCallback: the element is removed from the page
CartIcon_disconnectedCallback ==
  /\ icon.attached
  /\ icon' = [icon EXCEPT !.attached = FALSE]
  /\ dom' = [dom EXCEPT !.listeners =
               unsubscribe(unsubscribe(@, "icon", "cart:item-added"),
                           "icon", "cart:updated")]
  /\ dispatched' = <<>>
  /\ UNCHANGED <<pf, sd, ci, cd, fd, timers, seq, qa, pg, qs, hs, ab>>

CartIconNext ==
  \/ \E k \in CountIds, ok \in BOOLEAN : CartIcon_fetchCartCount_response(k, ok)
  \/ \E k \in CountIds : CartIcon_fetchCartCount_reject(k)
  \/ \E k \in CountIds, cart \in Carts : CartIcon_fetchCartCount_json(k, cart)

\* ======================================================================
\* ProductGallery  (src/assets/product-gallery.js)
\* ======================================================================

\* the slide showing the featured media of variant v (0: the variant has no
\* featured media, or no slide shows it)
FeaturedSlide(v) == IF v = 1 THEN 2 ELSE 0

\* _init(): the carousel is created
ProductGallery_init(g) == [g EXCEPT !.embla = "live"]

\* connectedCallback: the element after it is attached.  many: it holds at
\* least two slides; library: window.EmblaCarousel is defined; script: the
\* page holds the script tag that loads it
ProductGallery_connectedCallback(many, library, script) ==
  LET g == [attached      |-> TRUE,
            EmblaCarousel |-> library,     \* window.EmblaCarousel is defined
            script        |-> script,
            awaitingLoad  |-> FALSE,       \* a 'load' listener of the script will run _init()
            embla         |-> "undefined", \* this.embla: "undefined", "live" or "destroyed"
            slide         |-> 1]           \* the selected slide
  IN IF ~many THEN g
     ELSE IF ~library THEN [g EXCEPT !.awaitingLoad = script]
     ELSE ProductGallery_init(g)

\* the document after the gallery's connectedCallback
ProductGallery_connected(d, g) ==
  IF g # Absent /\ g.embla = "live"
    THEN [d EXCEPT !.listeners = subscribe(@, "gallery", "product:variant-changed")]
    ELSE d

\* _handleVariantChange(variant); a destroyed carousel no longer scrolls
handleVariantChange(g, variant) ==
  IF FeaturedSlide(variant) # 0 /\ g.embla = "live"
    THEN [g EXCEPT !.slide = FeaturedSlide(variant)] ELSE g

\* the Embla script finishes loading: window.EmblaCarousel is defined and the
\* script's 'load' listeners run
ProductGallery_scriptLoad ==
  /\ pg # Absent
  /\ pg.script /\ ~pg.EmblaCarousel
  /\ pg' = IF pg.awaitingLoad
             THEN ProductGallery_init([pg EXCEPT !.EmblaCarousel = TRUE,
                                                 !.awaitingLoad = FALSE])
             ELSE [pg EXCEPT !.EmblaCarousel = TRUE]
  /\ dom' = IF pg.awaitingLoad
              THEN [dom EXCEPT !.listeners =
                      subscribe(@, "gallery", "product:variant-changed")]
              ELSE dom
  /\ dispatched' = <<>>
  /\ UNCHANGED <<pf, sd, ci, cd, fd, timers, seq, qa, icon, qs, hs, ab>>

\* disconnectedCallback: the element is removed from the page
ProductGallery_disconnectedCallback ==
  /\ pg.attached
  /\ pg' = [pg EXCEPT !.attached = FALSE,
                      !.embla = IF @ = "live" THEN "destroyed" ELSE @]
  /\ dom' = [dom EXCEPT !.listeners = unsubscribe(@, "gallery", "product:variant-changed")]
  /\ dispatched' = <<>>
  /\ UNCHANGED <<pf, sd, ci, cd, fd, timers, seq, qa, icon, qs, hs, ab>>

\* ======================================================================
\* CartDrawer  (src/assets/cart-drawer.js)
\* ======================================================================

RefreshIds == 1..MaxRefresh
\* a refresh() call holds whether it was started by _onItemAdded (so that
\* open() follows it) and, as an observer, the value of stale when it started

\* connectedCallback: the element after it is attached, showing the cart the
\* page was loaded with; footer: the markup holds a .cart-drawer-footer
CartDrawer_connectedCallback(footer) ==
  [attached  |-> TRUE,
   stale     |-> FALSE,
   loading   |-> FALSE,             \* the 'is-loading' class
   body      |-> "page-load",       \* cart shown by .cart-drawer-body
   footer    |-> [exists |-> footer, hidden |-> FALSE, cart |-> "page-load"],
   count     |-> "page-load",       \* cart shown by .cart-drawer-count
   refresh   |-> [r \in RefreshIds |-> NotCalled],       \* refresh() calls
   refreshes |-> 0]                 \* number of section fetches issued so far

\* a renderFromHTML that replaces the footer's content without un-hiding it
renderFromHTML_staysHidden(c, html) ==
  IF ~html.drawer THEN c
  ELSE [c EXCEPT !.body = html.cart,
                 !.footer = IF html.footer
                              THEN [exists |-> TRUE, hidden |-> c.footer.hidden,
                                    cart |-> html.cart]
                              ELSE IF c.footer.exists
                                THEN [c.footer EXCEPT !.hidden = TRUE]
                                ELSE c.footer,
                 !.count = html.cart]

\* renderFromHTML(html): the drawer's own DOM
renderFromHTML(c, html) ==
  IF ~html.drawer THEN c
  ELSE [c EXCEPT !.body = html.cart,
                 !.footer = IF html.footer
                              THEN [exists |-> TRUE, hidden |-> FALSE, cart |-> html.cart]
                              ELSE IF c.footer.exists
                                THEN [c.footer EXCEPT !.hidden = TRUE]
                                ELSE c.footer,
                 !.count = html.cart]

\* observer, on the pages that watch it: the refresh() calls in flight that a
\* fragment applied since has superseded.  A bundled section supersedes every
\* call in flight, the response of call r the calls issued before r.
InFlight(c) == {r \in RefreshIds : c.refresh[r].pc \in {"fetch", "text"}}
supersede(c, calls) ==
  IF "superseded" \in DOMAIN c THEN [c EXCEPT !.superseded = @ \cup calls] ELSE c

\* renderFromHTML(html): what the innerHTML assignment does to the document:
\* the elements of the old body are gone
renderFromHTML_document(d, html) ==
  IF ~html.drawer THEN d ELSE detach(d, {"cart.item"})

\* refresh() up to the await of fetch
refresh(c, thenOpen) ==
  [c EXCEPT !.loading = TRUE,
            !.refreshes = @ + 1,
            !.refresh[c.refreshes + 1] =
               [pc |-> "fetch", thenOpen |-> thenOpen, staleAtStart |-> c.stale]]

\* a finally block that leaves the 'is-loading' class on the drawer
refreshFinally_keepsLoading(c, r) == [c EXCEPT !.refresh[r] = Returned]

\* the finally block of refresh(), for call r
refreshFinally(c, r) == [c EXCEPT !.refresh[r] = Returned, !.loading = FALSE]

\* the first statement of open(): if (this.stale) { this.refresh(); this.stale = false; }
openStale(c) == IF c.stale THEN [refresh(c, FALSE) EXCEPT !.stale = FALSE] ELSE c

\* refresh slots already used or promised to the open() that follows a
\* refresh started by _onItemAdded
Reserved(c) ==
  c.refreshes + Cardinality({r \in RefreshIds : c.refresh[r].pc \in {"fetch", "text"}
                                                  /\ c.refresh[r].thenOpen})

\* a _onCartUpdated that renders a bundled section but never marks the drawer stale
onCartUpdated_neverStale(c, isOpen, hasSection, html) ==
  IF hasSection THEN renderFromHTML(c, html)
  ELSE IF isOpen THEN refresh(c, FALSE)
  ELSE c

\* _onCartUpdated(e): hasSection: e.detail.sections['cart-drawer'] is a
\* non-empty string, html: the fragment it holds
onCartUpdated(c, isOpen, hasSection, html) ==
  IF hasSection THEN renderFromHTML(c, html)
  ELSE IF isOpen THEN refresh(c, FALSE)
  ELSE [c EXCEPT !.stale = TRUE]

\* ---- the domain events on document

\* new CustomEvent('cart:item-added', { detail: { items } })
ItemAdded == [kind |-> "cart:item-added", items |-> "items"]

\* new CustomEvent('cart:updated', { detail: { cart, sections } }): the cart,
\* whether sections['cart-drawer'] is a non-empty string and, if so, the
\* fragment it holds
CartUpdated(hasSection, html) ==
  IF hasSection
    THEN [kind |-> "cart:updated", cart |-> html.cart, section |-> TRUE, html |-> html]
    ELSE [kind |-> "cart:updated", cart |-> html.cart, section |-> FALSE]

\* new CustomEvent('product:variant-changed', { detail: { variant } })
VariantChanged(variant) == [kind |-> "product:variant-changed", variant |-> variant]

\* e.detail.sections['cart-drawer'] parsed (a document without <cart-drawer>
\* when the event holds no such section)
Html(ev) ==
  IF ev.section THEN ev.html ELSE [cart |-> ev.cart, drawer |-> FALSE, footer |-> FALSE]

\* a dispatch that returns before any listener has run
Publish_deferred(ev) ==
  /\ dispatched' = <<ev>>
  /\ UNCHANGED <<cd, dom, seq, icon, pg>>

\* document.dispatchEvent(ev): every listener registered for the event's type
\* runs before dispatchEvent returns.  The handlers of different elements
\* write disjoint state.
Publish(ev) ==
  /\ dispatched' = <<ev>>
  /\ IF Listening(dom, "cart", ev.kind)
       THEN IF ev.kind = "cart:item-added"
              \* _onItemAdded: refresh(); open() follows when the promise fulfils
              THEN /\ Reserved(cd) + 2 <= MaxRefresh
                   /\ cd' = refresh(cd, TRUE)
                   /\ UNCHANGED <<dom, seq>>
              \* _onCartUpdated(e)
              ELSE /\ (~ev.section /\ dom.overlay["cart"].isOpen)
                         => Reserved(cd) + 1 <= MaxRefresh
                   /\ cd' = supersede(onCartUpdated(cd, dom.overlay["cart"].isOpen,
                                                    ev.section, Html(ev)),
                                      IF Html(ev).drawer THEN InFlight(cd) ELSE {})
                   /\ dom' = IF ev.section
                               THEN renderFromHTML_document(dom, Html(ev)) ELSE dom
                   /\ seq' = IF dom' = dom THEN seq ELSE NoSeq
       ELSE UNCHANGED <<cd, dom, seq>>
  /\ IF Listening(dom, "icon", ev.kind)
       THEN IF ev.kind = "cart:item-added"
              \* CartIcon._onItemAdded
              THEN /\ icon.fetches < MaxCount
                   /\ icon' = fetchCartCount(icon)
              \* CartIcon._onCartUpdated(e): e.detail.cart is set
              ELSE icon' = overtake(updateCount(icon, ev.cart), CountsInFlight(icon))
       ELSE UNCHANGED icon
  /\ IF Listening(dom, "gallery", ev.kind)
       \* ProductGallery._onVariantChanged(e)
       THEN pg' = handleVariantChange(pg, ev.variant)
       ELSE UNCHANGED pg

\* 'cart:item-added' is published while the drawer is on the page:
\* _onItemAdded runs refresh(); open() follows when the returned promise fulfils
CartDrawer_onItemAdded ==
  /\ cd # Absent
  /\ Publish(ItemAdded)
  /\ UNCHANGED <<pf, sd, ci, fd, timers, qa, qs, hs, ab>>

\* 'cart:updated' is published while the drawer is on the page:
\* _onCartUpdated(e) runs
CartDrawer_onCartUpdated(hasSection, html) ==
  /\ cd # Absent
  /\ Publish(CartUpdated(hasSection, html))
  /\ UNCHANGED <<pf, sd, ci, fd, timers, qa, qs, hs, ab>>

\* the cart icon's click listener: drawer.open()
CartDrawer_open ==
  /\ cd.attached
  /\ cd.stale => Reserved(cd) + 1 <= MaxRefresh
  /\ cd' = openStale(cd)
  /\ dom' = open(dom, "cart")
  /\ seq' = afterOpen(seq, dom, dom', "cart")
  /\ dispatched' = <<>>
  /\ UNCHANGED <<widgets, pf, sd, ci, fd, timers, qs>>

\* the click listeners of the close button and of the overlay: close()
CartDrawer_close ==
  /\ cd.attached
  /\ dom' = close(dom, "cart")
  /\ seq' = afterClose(seq, dom', "cart")
  /\ dispatched' = <<>>
  /\ UNCHANGED <<widgets, pf, sd, ci, cd, fd, timers, qs>>

\* disconnectedCallback: the drawer is removed from the page; the two cart
\* event listeners are removed, nothing else is undone
CartDrawer_disconnectedCallback ==
  /\ cd.attached
  /\ cd' = [cd EXCEPT !.attached = FALSE]
  /\ dom' = [remove(dom, "cart") EXCEPT !.listeners =
               unsubscribe(unsubscribe(@, "cart", "cart:item-added"),
                           "cart", "cart:updated")]
  /\ seq' = NoSeq
  /\ dispatched' = <<>>
  /\ UNCHANGED <<widgets, pf, sd, ci, fd, timers, qs>>

\* refresh() has returned for a call started by _onItemAdded (thenOpen): the
\* promise fulfils and open() runs in the same task
afterRefresh(c, d, s, then) ==
  /\ cd' = IF then THEN openStale(c) ELSE c
  /\ dom' = IF then THEN open(d, "cart") ELSE d
  /\ seq' = LET base == IF d = dom THEN s ELSE NoSeq
            IN IF then THEN afterOpen(base, d, dom', "cart") ELSE base

\* refresh: the fetch promise resolves with a response
CartDrawer_refresh_response(r, ok) ==
  /\ cd # Absent
  /\ cd.refresh[r].pc = "fetch"
  /\ IF ok
       THEN /\ cd' = [cd EXCEPT !.refresh[r].pc = "text"]
            /\ UNCHANGED <<dom, seq>>
       ELSE afterRefresh(refreshFinally(cd, r), dom, seq, cd.refresh[r].thenOpen)
  /\ dispatched' = <<>>
  /\ UNCHANGED <<widgets, pf, sd, ci, fd, timers, qs>>

\* refresh: the fetch promise rejects (network error); the promise returned by
\* refresh() rejects, so no open() follows
CartDrawer_refresh_reject(r) ==
  /\ cd # Absent
  /\ cd.refresh[r].pc = "fetch"
  /\ cd' = refreshFinally(cd, r)
  /\ dispatched' = <<>>
  /\ UNCHANGED <<widgets, pf, sd, ci, fd, dom, timers, seq, qs>>

\* refresh: response.text() resolves with the section's markup
CartDrawer_refresh_text(r, html) ==
  /\ cd # Absent
  /\ cd.refresh[r].pc = "text"
  /\ afterRefresh(refreshFinally(
                    supersede(renderFromHTML(cd, html),
                              IF html.drawer THEN {x \in InFlight(cd) : x < r} ELSE {}), r),
                  renderFromHTML_document(dom, html), seq, cd.refresh[r].thenOpen)
  /\ dispatched' = <<>>
  /\ UNCHANGED <<widgets, pf, sd, ci, fd, timers, qs>>

\* refresh: response.text() rejects (the body could not be read)
CartDrawer_refresh_textReject(r) ==
  /\ cd # Absent
  /\ cd.refresh[r].pc = "text"
  /\ cd' = refreshFinally(cd, r)
  /\ dispatched' = <<>>
  /\ UNCHANGED <<widgets, pf, sd, ci, fd, dom, timers, seq, qs>>

CartDrawerNext ==
  \/ CartDrawer_onItemAdded
  \/ \E html \in Fragments : CartDrawer_onCartUpdated(TRUE, html)
  \/ \E html \in {f \in Fragments : ~f.drawer /\ ~f.footer /\ f.cart = "A"} :
        CartDrawer_onCartUpdated(FALSE, html)
  \/ CartDrawer_open
  \/ CartDrawer_close
  \/ \E r \in RefreshIds, ok \in BOOLEAN : CartDrawer_refresh_response(r, ok)
  \/ \E r \in RefreshIds : CartDrawer_refresh_reject(r)
  \/ \E r \in RefreshIds, html \in Fragments : CartDrawer_refresh_text(r, html)
  \/ \E r \in RefreshIds : CartDrawer_refresh_textReject(r)

\* ======================================================================
\* ProductForm  (src/assets/product-form.js)
\* ======================================================================

RenderIds == 1..MaxRender
SubmitIds == 1..MaxSubmit


\* connectedCallback: the element after it is attached.  sec: data-section-id
\* is set; err: a [data-error] element exists; ct: body.dataset.cartType
ProductForm_connectedCallback(sec, err, ct) ==
  [attached        |-> TRUE,
   sectionId       |-> sec,
   errorContainer  |-> err,
   cartType        |-> ct,
   renderRequestId |-> 0,
   loading         |-> FALSE,         \* the 'is-loading' class
   region          |-> 1,             \* variant the [data-variant-render] regions show
   button          |-> [disabled |-> FALSE, loading |-> FALSE],  \* this.submitButton
   currentVariant  |-> NoVariant,     \* this.currentVariant (NoVariant: undefined)
   idInput         |-> 1,             \* value of input[name="id"]
   urlVariant      |-> NoVariant,     \* ?variant= of the location
   error           |-> [text |-> "", hidden |-> TRUE],           \* [data-error]
   render          |-> [r \in RenderIds |-> NotCalled],  \* renderVariantSections calls
   submit          |-> [s \in SubmitIds |-> NotCalled],  \* handleSubmit calls
   submits         |-> 0,             \* number of handleSubmit calls so far
   navigated       |-> "",            \* window.location.href assigned by handleSubmit
   writer          |-> 0,             \* observer: id of the call that last swapped the regions
   latestOk        |-> FALSE,         \* observer: the latest call's response was ok with regions
   body            |-> ""]            \* observer: the response body read by the last task

\* a showError that sets the text but leaves the region hidden
showError_keepsHidden(p, message) ==
  IF p.errorContainer THEN [p EXCEPT !.error = [text |-> message, hidden |-> p.error.hidden]]
  ELSE p

\* showError(message)
showError(p, message) ==
  IF p.errorContainer THEN [p EXCEPT !.error = [text |-> message, hidden |-> FALSE]]
  ELSE p

\* clearError()
clearError(p) ==
  IF p.errorContainer THEN [p EXCEPT !.error = [text |-> "", hidden |-> TRUE]]
  ELSE p

\* the finally block of renderVariantSections, for the call with id requestId
renderFinally(p, requestId) ==
  [p EXCEPT !.render[requestId] = Returned,
            !.loading = IF requestId = p.renderRequestId THEN FALSE ELSE p.loading]

\* renderVariantSections(variantId) up to its first await
renderVariantSections(p, variantId) ==
  IF ~p.sectionId THEN p
  ELSE [p EXCEPT !.renderRequestId = p.renderRequestId + 1,
                 !.loading = TRUE,
                 !.latestOk = FALSE,
                 !.render[p.renderRequestId + 1] =
                    [pc |-> "fetch", variant |-> variantId, doc |-> FALSE]]

\* what every task of this element leaves alone
ProductForm_frame == UNCHANGED <<widgets, sd, ci, cd, fd, dom, timers, seq, qs>>

\* handleVariantChange(): a radio changed; matched is the variant matching the
\* selected options (NoVariant when none matches)
ProductForm_handleVariantChange(matched) ==
  /\ pf.attached
  /\ pf.renderRequestId < MaxRender
  /\ IF matched = NoVariant
       THEN /\ pf' = [pf EXCEPT !.body = ""]
            /\ dispatched' = <<>>
            /\ ProductForm_frame
       ELSE /\ pf' = renderVariantSections(
                       [pf EXCEPT !.currentVariant = matched,
                                  !.idInput = matched,
                                  !.urlVariant = matched,
                                  !.body = ""],
                       matched)
            /\ Publish(VariantChanged(matched))
            /\ UNCHANGED <<sd, ci, fd, timers, qa, qs, hs, ab>>

\* renderVariantSections: the fetch promise resolves with a response
\* (ok: response.ok; hasRegions: the returned document holds the regions)
ProductForm_renderVariantSections_response(r, ok, hasRegions) ==
  LET p == [pf EXCEPT !.body = "",
                      !.latestOk = IF r = pf.renderRequestId
                                     THEN ok /\ hasRegions ELSE pf.latestOk]
  IN
  /\ pf.attached
  /\ pf.render[r].pc = "fetch"
  /\ pf' = IF ~ok \/ r # pf.renderRequestId
             THEN renderFinally(p, r)
             ELSE [p EXCEPT !.render[r].pc = "text", !.render[r].doc = hasRegions]
  /\ dispatched' = <<>>
  /\ ProductForm_frame

\* renderVariantSections: the fetch promise rejects (network error)
ProductForm_renderVariantSections_reject(r) ==
  /\ pf.attached
  /\ pf.render[r].pc = "fetch"
  /\ pf' = renderFinally([pf EXCEPT !.body = ""], r)
  /\ dispatched' = <<>>
  /\ ProductForm_frame

\* renderVariantSections: response.text() resolves; the regions are swapped and
\* the submit button (inside the swapped buy-buttons region) is re-cached
ProductForm_renderVariantSections_text(r) ==
  LET v == pf.render[r].variant
      swapped == IF pf.render[r].doc
                   THEN [pf EXCEPT !.region = v,
                                   !.writer = r,
                                   !.button = [disabled |-> ~Available(v),
                                               loading |-> FALSE],
                                   !.body = ""]
                   ELSE [pf EXCEPT !.body = ""]
  IN
  /\ pf.attached
  /\ pf.render[r].pc = "text"
  /\ pf' = renderFinally(swapped, r)
  /\ dispatched' = <<>>
  /\ ProductForm_frame

\* renderVariantSections: response.text() rejects (the body could not be read)
ProductForm_renderVariantSections_textReject(r) ==
  /\ pf.attached
  /\ pf.render[r].pc = "text"
  /\ pf' = renderFinally(
             [pf EXCEPT !.body = "",
                        !.latestOk = IF r = pf.renderRequestId THEN FALSE ELSE pf.latestOk],
             r)
  /\ dispatched' = <<>>
  /\ ProductForm_frame

\* the finally block of handleSubmit, for call s
submitFinally(p, s) ==
  [p EXCEPT !.submit[s].pc = "done",
            !.button = [loading |-> FALSE,
                        disabled |-> IF p.currentVariant = NoVariant
                                          \/ Available(p.currentVariant)
                                       THEN FALSE ELSE p.button.disabled]]

\* handleSubmit(e) up to the await of fetch('/cart/add.js'); a submit event
\* needs an enabled submit button
ProductForm_handleSubmit ==
  /\ pf.attached
  /\ pf.submits < MaxSubmit
  /\ ~pf.button.disabled
  /\ pf' = [clearError(pf) EXCEPT !.button = [disabled |-> TRUE, loading |-> TRUE],
                                  !.submits = pf.submits + 1,
                                  !.submit[pf.submits + 1].pc = "fetch",
                                  !.body = ""]
  /\ dispatched' = <<>>
  /\ ProductForm_frame

\* handleSubmit: the fetch promise resolves; both branches await response.json()
ProductForm_handleSubmit_response(s, ok) ==
  /\ pf.attached
  /\ pf.submit[s].pc = "fetch"
  /\ pf' = [pf EXCEPT !.submit[s].pc = IF ok THEN "json" ELSE "errjson", !.body = ""]
  /\ dispatched' = <<>>
  /\ ProductForm_frame

\* handleSubmit: the fetch promise rejects: catch, then finally
ProductForm_handleSubmit_reject(s) ==
  /\ pf.attached
  /\ pf.submit[s].pc = "fetch"
  /\ pf' = submitFinally(showError([pf EXCEPT !.body = ""], NetworkMsg), s)
  /\ dispatched' = <<>>
  /\ ProductForm_frame

\* handleSubmit: the error body of a non-ok response is read; body is its
\* description, NoDesc or BadJson
ProductForm_handleSubmit_errorBody(s, body) ==
  LET message == IF body = BadJson THEN ParseMsg
                 ELSE IF body = NoDesc THEN FallbackMsg ELSE body
  IN
  /\ pf.attached
  /\ pf.submit[s].pc = "errjson"
  /\ pf' = submitFinally(showError([pf EXCEPT !.body = body], message), s)
  /\ dispatched' = <<>>
  /\ ProductForm_frame

\* handleSubmit: the body of an ok response is read; 'cart:item-added' is
\* dispatched, a 'page' cart redirects, then finally
ProductForm_handleSubmit_body(s, parses) ==
  /\ pf.attached
  /\ pf.submit[s].pc = "json"
  /\ IF parses
       THEN /\ Publish(ItemAdded)
            /\ pf' = submitFinally(
                       [pf EXCEPT !.body = "items",
                                  !.navigated = IF pf.cartType = "page"
                                                  THEN "/cart" ELSE pf.navigated],
                       s)
            /\ UNCHANGED <<sd, ci, fd, timers, qa, qs, hs, ab>>
       ELSE /\ dispatched' = <<>>
            /\ pf' = submitFinally(showError([pf EXCEPT !.body = BadJson], ParseMsg), s)
            /\ ProductForm_frame

ProductFormNext ==
  \/ \E m \in VariantIds \cup {NoVariant} : ProductForm_handleVariantChange(m)
  \/ \E r \in RenderIds, ok \in BOOLEAN, d \in BOOLEAN :
        ProductForm_renderVariantSections_response(r, ok, d)
  \/ \E r \in RenderIds : ProductForm_renderVariantSections_reject(r)
  \/ \E r \in RenderIds : ProductForm_renderVariantSections_text(r)
  \/ \E r \in RenderIds : ProductForm_renderVariantSections_textReject(r)
  \/ ProductForm_handleSubmit
  \/ \E s \in SubmitIds, ok \in BOOLEAN : ProductForm_handleSubmit_response(s, ok)
  \/ \E s \in SubmitIds : ProductForm_handleSubmit_reject(s)
  \/ \E s \in SubmitIds, b \in Descs \cup {NoDesc, BadJson} :
        ProductForm_handleSubmit_errorBody(s, b)
  \/ \E s \in SubmitIds, p \in BOOLEAN : ProductForm_handleSubmit_body(s, p)

\* ======================================================================
\* QuickAdd  (src/assets/quick-add.js)
\* ======================================================================

AddIds == 1..MaxAdd

\* connectedCallback: the element after it is attached, on the expected markup.
\* link: the element is inside a .product-card that holds a link
QuickAdd_connectedCallback(link) ==
  [attached  |-> TRUE,
   link      |-> link,
   button    |-> [disabled |-> FALSE, loading |-> FALSE],   \* this.button
   add       |-> [a \in AddIds |-> NotCalled],              \* handleAdd calls
   adds      |-> 0,                 \* number of handleAdd calls so far
   navigated |-> "",                \* window.location.href assigned by handleAdd
   body      |-> ""]                \* observer: the response body read by the last task

\* the finally block of handleAdd, for call a
addFinally(q, a) ==
  [q EXCEPT !.add[a] = Returned, !.button = [disabled |-> FALSE, loading |-> FALSE]]

\* a catch block that leaves the location alone
addCatch_stay(q, a) == addFinally(q, a)

\* the catch block of handleAdd, then finally: the location is set to the
\* href of the card's link (undefined without a card or a link)
addCatch(q, a) ==
  addFinally([q EXCEPT !.navigated = IF q.link THEN "product" ELSE "undefined"], a)

\* the button's click listener: handleAdd() up to the await of
\* fetch('/cart/add.js'); a disabled button receives no click
QuickAdd_handleAdd ==
  /\ qa.attached
  /\ qa.adds < MaxAdd
  /\ ~qa.button.disabled
  /\ qa' = [qa EXCEPT !.button = [disabled |-> TRUE, loading |-> TRUE],
                      !.body = "",
                      !.adds = @ + 1,
                      !.add[qa.adds + 1] = [pc |-> "fetch"]]
  /\ dispatched' = <<>>
  /\ UNCHANGED <<pf, sd, ci, cd, fd, dom, timers, seq, icon, pg, qs, hs, ab>>

\* handleAdd: the fetch promise resolves; both branches await response.json()
QuickAdd_handleAdd_response(a, ok) ==
  /\ qa # Absent
  /\ qa.add[a].pc = "fetch"
  /\ qa' = [qa EXCEPT !.add[a].pc = IF ok THEN "json" ELSE "errjson", !.body = ""]
  /\ dispatched' = <<>>
  /\ UNCHANGED <<pf, sd, ci, cd, fd, dom, timers, seq, icon, pg, qs, hs, ab>>

\* handleAdd reaches its catch block: the fetch promise rejects (pc "fetch"),
\* the error body of a non-ok response has been read or could not be parsed
\* (pc "errjson"), or the body of an ok response does not parse (pc "json")
QuickAdd_handleAdd_catch(a) ==
  /\ qa # Absent
  /\ qa.add[a].pc \in {"fetch", "errjson", "json"}
  /\ qa' = addCatch([qa EXCEPT !.body = ""], a)
  /\ dispatched' = <<>>
  /\ UNCHANGED <<pf, sd, ci, cd, fd, dom, timers, seq, icon, pg, qs, hs, ab>>

\* handleAdd: the body of an ok response is read; 'cart:item-added' is
\* dispatched, then finally
QuickAdd_handleAdd_json(a) ==
  /\ qa # Absent
  /\ qa.add[a].pc = "json"
  /\ qa' = addFinally([qa EXCEPT !.body = "items"], a)
  /\ Publish(ItemAdded)
  /\ UNCHANGED <<pf, sd, ci, fd, timers, qs, hs, ab>>

QuickAddNext ==
  \/ QuickAdd_handleAdd
  \/ \E a \in AddIds, ok \in BOOLEAN : QuickAdd_handleAdd_response(a, ok)
  \/ \E a \in AddIds : QuickAdd_handleAdd_catch(a)
  \/ \E a \in AddIds : QuickAdd_handleAdd_json(a)

\* ======================================================================
\* CartItems  (src/assets/cart-items.js)
\* ======================================================================

UpdateIds == 1..MaxUpdate

\* connectedCallback: the element after it is attached.  inside: it is a
\* descendant of <cart-drawer>; errEl: it holds a [data-error] element
CartItems_connectedCallback(inside, errEl) ==
  [attached      |-> TRUE,
   insideDrawer  |-> inside,
   errorEl       |-> errEl,
   debounceTimer |-> Null,          \* this.debounceTimer: Null or "handle"
   loading       |-> FALSE,         \* the 'is-loading' class
   error         |-> [text |-> "", hidden |-> TRUE],      \* [data-error]
   items         |-> "page-load",   \* innerHTML: "page-load" or <<key, quantity>> rendered
   update        |-> [c \in UpdateIds |-> NotCalled],     \* updateItem calls
   updates       |-> 0,             \* number of updateItem calls so far
   quiet         |-> Delay,         \* observer: ticks since the last debouncedUpdate
   burstLast     |-> <<>>,          \* observer: <<[key, quantity]>> of the last debouncedUpdate
   burstCalls    |-> 0,             \* observer: debouncedUpdate calls of the burst (up to 2)
   burstRuns     |-> <<>>]          \* observer: arguments the timer ran updateItem with
                                    \*           since the burst began

\* a debouncedUpdate that schedules without cancelling the pending timer
debouncedUpdate_noClear(key, quantity) ==
  setTimeout("cart-items", [key |-> key, quantity |-> quantity], timers)

\* debouncedUpdate(key, quantity): the pending timers after the call
debouncedUpdate(key, quantity) ==
  setTimeout("cart-items", [key |-> key, quantity |-> quantity],
             clearTimeout("cart-items", timers))

\* updateItem(key, quantity) up to the await of fetch('/cart/change.js')
updateItem(c, key, quantity) ==
  [c EXCEPT !.loading = TRUE,
            !.updates = @ + 1,
            !.update[c.updates + 1] = [pc |-> "fetch", key |-> key, quantity |-> quantity]]

\* a catch block that removes 'is-loading' but shows no message
updateCatch_silent(c, u, message) ==
  [c EXCEPT !.update[u] = Returned, !.loading = FALSE]

\* the catch block of updateItem, for call u
updateCatch(c, u, message) ==
  [c EXCEPT !.update[u] = Returned,
            !.error = IF c.errorEl THEN [text |-> message, hidden |-> FALSE] ELSE @,
            !.loading = FALSE]

\* renderFromSections(sections).  section: what sections[this.sectionId]
\* holds ("none": nothing, "no-element": markup without <cart-items>, "ok");
\* rendered: the change whose cart the section shows
renderFromSections(c, section, rendered) ==
  IF section = "none" THEN c
  ELSE IF section = "no-element" THEN [c EXCEPT !.loading = FALSE]
  ELSE [c EXCEPT !.items = rendered,
                 !.error = [text |-> "", hidden |-> TRUE],
                 !.loading = FALSE]

\* observer kept on the pages that watch it: the line items whose last user
\* action was a click on their remove button
noteRemove(c, key) ==
  IF "lastRemoved" \in DOMAIN c THEN [c EXCEPT !.lastRemoved = @ \cup {key}] ELSE c
noteChange(c, key) ==
  IF "lastRemoved" \in DOMAIN c THEN [c EXCEPT !.lastRemoved = @ \ {key}] ELSE c

\* the delegated change listener: a quantity input with data-key = key changed
\* to quantity; debouncedUpdate(key, quantity)
change(key, quantity) ==
  /\ ci.attached
  /\ ci.updates < MaxUpdate
  /\ timers' = debouncedUpdate(key, quantity)
  /\ ci' = [noteChange(ci, key) EXCEPT !.debounceTimer = "handle",
                      !.quiet = 0,
                      !.burstLast = <<[key |-> key, quantity |-> quantity]>>,
                      !.burstRuns = IF ci.quiet >= Delay THEN <<>> ELSE @,
                      !.burstCalls = IF ci.quiet >= Delay THEN 1 ELSE 2]
  /\ dispatched' = <<>>
  /\ UNCHANGED <<widgets, pf, sd, cd, fd, dom, seq>>

\* a change event from a quantity input outside any <quantity-selector>
CartItems_change(key, quantity) ==
  /\ change(key, quantity)
  /\ UNCHANGED qs

\* the delegated click listener: the remove button of line item key was clicked
CartItems_removeClick(key) ==
  /\ ci.attached
  /\ ci.updates + Cardinality(Pending("cart-items")) < MaxUpdate
  /\ ci' = noteRemove(updateItem(ci, key, 0), key)
  /\ dispatched' = <<>>
  /\ UNCHANGED <<widgets, pf, sd, cd, fd, dom, timers, seq, qs>>

\* the debounce timer t is due: its callback runs updateItem(key, quantity)
CartItems_debounceFires(t) ==
  /\ ci # Absent
  /\ t \in timers /\ t.owner = "cart-items" /\ t.left = 0
  /\ ci.updates < MaxUpdate
  /\ timers' = timers \ {t}
  /\ ci' = updateItem([ci EXCEPT !.burstRuns = Append(@, t.args)],
                      t.args.key, t.args.quantity)
  /\ dispatched' = <<>>
  /\ UNCHANGED <<widgets, pf, sd, cd, fd, dom, seq, qs>>

\* updateItem: the fetch promise resolves with a response
CartItems_updateItem_response(u, ok) ==
  /\ ci # Absent
  /\ ci.update[u].pc = "fetch"
  /\ ci' = IF ok THEN [ci EXCEPT !.update[u].pc = "json"]
           ELSE updateCatch(ci, u, UpdateFailedMsg)
  /\ dispatched' = <<>>
  /\ UNCHANGED <<widgets, pf, sd, cd, fd, dom, timers, seq, qs>>

\* updateItem: the fetch promise rejects (network error)
CartItems_updateItem_reject(u) ==
  /\ ci # Absent
  /\ ci.update[u].pc = "fetch"
  /\ ci' = updateCatch(ci, u, NetworkMsg)
  /\ dispatched' = <<>>
  /\ UNCHANGED <<widgets, pf, sd, cd, fd, dom, timers, seq, qs>>

\* updateItem: response.json() resolves; 'cart:updated' is dispatched and, on
\* the cart page, the element renders itself from the bundled section.
\* section: what data.sections[this.sectionId] holds; ev: the event, whose
\* 'cart-drawer' section can only be the element's own
CartItems_updateItem_json(u, section, ev) ==
  LET done == [ci EXCEPT !.update[u] = Returned]
  IN
  /\ ci # Absent
  /\ ci.update[u].pc = "json"
  /\ ev.section => section # "none"
  /\ Publish(ev)
  /\ ci' = IF ~ci.insideDrawer
             THEN renderFromSections(done, section,
                                     <<ci.update[u].key, ci.update[u].quantity>>)
             ELSE done
  /\ UNCHANGED <<pf, sd, fd, timers, qa, qs, hs, ab>>

\* updateItem: response.json() rejects (the body does not parse)
CartItems_updateItem_jsonReject(u) ==
  /\ ci # Absent
  /\ ci.update[u].pc = "json"
  /\ ci' = updateCatch(ci, u, ParseMsg)
  /\ dispatched' = <<>>
  /\ UNCHANGED <<widgets, pf, sd, cd, fd, dom, timers, seq, qs>>

\* the element is removed from the page; CartItems defines no
\* disconnectedCallback, so nothing is undone
CartItems_disconnected ==
  /\ ci.attached
  /\ ci' = [ci EXCEPT !.attached = FALSE]
  /\ dispatched' = <<>>
  /\ UNCHANGED <<widgets, pf, sd, cd, fd, dom, timers, seq, qs>>

CartItemsNext ==
  \/ \E k \in Keys, q \in Quantities : CartItems_change(k, q)
  \/ \E k \in Keys : CartItems_removeClick(k)
  \/ \E t \in timers : CartItems_debounceFires(t)
  \/ \E u \in UpdateIds, ok \in BOOLEAN : CartItems_updateItem_response(u, ok)
  \/ \E u \in UpdateIds : CartItems_updateItem_reject(u)
  \/ \E u \in UpdateIds, h \in {"none", "no-element", "ok"}, html \in Fragments,
          b \in BOOLEAN : CartItems_updateItem_json(u, h, CartUpdated(b, html))
  \/ \E u \in UpdateIds : CartItems_updateItem_jsonReject(u)

\* ======================================================================
\* QuantitySelector  (src/assets/cart-drawer.js)
\* ======================================================================

\* A JavaScript number is <<n>>, or <<>> for NaN; a string is its sequence of
\* characters.
NaN == <<>>
Digits == <<"0", "1", "2", "3", "4", "5", "6", "7", "8", "9">>
IsDigit(c) == c \in Range(Digits)
DigitValue(c) == CHOOSE n \in 0..9 : Digits[n + 1] = c

RECURSIVE leadingDigits(_)
leadingDigits(s) ==
  IF s # <<>> /\ IsDigit(Head(s)) THEN <<Head(s)>> \o leadingDigits(Tail(s)) ELSE <<>>

RECURSIVE digitsValue(_)
digitsValue(ds) ==
  IF ds = <<>> THEN 0
  ELSE 10 * digitsValue(SubSeq(ds, 1, Len(ds) - 1)) + DigitValue(ds[Len(ds)])

\* parseInt(s): leading white space is skipped, then an optional sign and the
\* longest run of digits; NaN when there is no digit
parseInt(s) ==
  LET u == TrimStart(s)
      signed == u # <<>> /\ Head(u) \in {"-", "+"}
      ds == leadingDigits(IF signed THEN Tail(u) ELSE u)
  IN IF ds = <<>> THEN NaN
     ELSE IF signed /\ Head(u) = "-" THEN <<0 - digitsValue(ds)>> ELSE <<digitsValue(ds)>>

RECURSIVE natString(_)
natString(n) ==
  IF n < 10 THEN <<Digits[n + 1]>> ELSE natString(n \div 10) \o <<Digits[(n % 10) + 1]>>

\* String(x) of a number
String(x) ==
  IF x = NaN THEN <<"N", "a", "N">>
  ELSE IF x[1] < 0 THEN <<"-">> \o natString(0 - x[1]) ELSE natString(x[1])

\* Math.max / Math.min / +: NaN if an argument is NaN
MathMax(a, b) == IF a = NaN \/ b = NaN THEN NaN ELSE IF a[1] >= b[1] THEN a ELSE b
MathMin(a, b) == IF a = NaN \/ b = NaN THEN NaN ELSE IF a[1] <= b[1] THEN a ELSE b
Plus(a, delta) == IF a = NaN THEN NaN ELSE <<a[1] + delta>>

\* a valid floating-point number, as <input type="number"> accepts it:
\* -?digits(.digits)?(e[+-]?digits)? or -?.digits(e[+-]?digits)?
FloatStep(phase, c) ==
  CASE phase = "start" /\ c = "-" -> "sign"
    [] phase \in {"start", "sign", "int"} /\ IsDigit(c) -> "int"
    [] phase \in {"start", "sign", "int"} /\ c = "." -> "dot"
    [] phase \in {"dot", "frac"} /\ IsDigit(c) -> "frac"
    [] phase \in {"int", "frac"} /\ c \in {"e", "E"} -> "e"
    [] phase = "e" /\ c \in {"-", "+"} -> "esign"
    [] phase \in {"e", "esign", "exp"} /\ IsDigit(c) -> "exp"
    [] OTHER -> "bad"

RECURSIVE FloatPhase(_, _)
FloatPhase(s, phase) == IF s = <<>> THEN phase ELSE FloatPhase(Tail(s), FloatStep(phase, Head(s)))

\* the value sanitization of <input type="number">: a value that is not a
\* valid floating-point number becomes the empty string
Sanitize(s) == IF FloatPhase(s, "start") \in {"int", "frac", "exp"} THEN s ELSE <<>>

\* parseInt(attribute) || fallback
OrDefault(x, fallback) == IF x = NaN \/ x = <<0>> THEN fallback ELSE x[1]
DefaultMin == 0
DefaultMax == 99

\* connectedCallback: the element after it is attached; min, max: the input's
\* min and max attributes (<<>> when absent), value: its value attribute
QuantitySelector_connectedCallback(min, max, value) ==
  [attached |-> TRUE,
   min      |-> OrDefault(parseInt(min), DefaultMin),
   max      |-> OrDefault(parseInt(max), DefaultMax),
   value    |-> Sanitize(value),    \* this.input.value
   observed |-> <<>>]               \* observer: <<parseInt(input.value)>> as the last
                                    \*           bubbling change event showed it

\* this.input.value = x
setValue(q, x) == [q EXCEPT !.value = Sanitize(String(x))]

\* update(delta), its first statement
update(q, delta) ==
  setValue(q, MathMin(<<q.max>>, MathMax(<<q.min>>, Plus(parseInt(q.value), delta))))

\* a change listener of the input that leaves the value as it is
clamp_none(q) == q

\* clamp(): the change listener of the input
clamp(q) ==
  LET val == parseInt(q.value)
  IN setValue(q, MathMin(<<q.max>>, MathMax(<<q.min>>, IF val = NaN THEN <<q.min>> ELSE val)))

\* a change event is dispatched on the input: its own listener (clamp) runs
\* first, then the event bubbles to the listener of <cart-items>, if the
\* selector is inside one, which reads parseInt(input.value)
dispatchChange(q) ==
  LET clamped == clamp(q)
      seen == parseInt(clamped.value)
  IN
  /\ qs' = [clamped EXCEPT !.observed = <<seen>>]
  /\ IF ci.attached
       THEN change("k1", seen)
       ELSE /\ dispatched' = <<>>
            /\ UNCHANGED <<widgets, pf, sd, ci, cd, fd, dom, timers, seq>>

\* a click on the decrease (delta = -1) or increase (delta = 1) button
QuantitySelector_click(delta) ==
  /\ qs.attached
  /\ dispatchChange(update(qs, delta))

\* the user edits the field to `text` and commits: the browser sets the
\* value and fires change
QuantitySelector_edit(text) ==
  /\ qs.attached
  /\ Sanitize(text) # qs.value
  /\ dispatchChange([qs EXCEPT !.value = Sanitize(text)])

\* ======================================================================
\* HotspotImage  (src/assets/hotspot-image.js)
\* ======================================================================

\* the [data-hotspot] markers of the element and the values data-hotspot takes
Markers == {"m1", "m2", "m3"}
HotspotIds == {"a", "b", "c"}

\* connectedCallback: the element after it is attached.  id: the data-hotspot
\* of each marker; popover: the markers that hold a .hotspot-popover
HotspotImage_connectedCallback(id, popover) ==
  [attached |-> TRUE,
   activeId |-> Null,
   marker   |-> [m \in Markers |->
                   [id |-> id[m],
                    active |-> FALSE,             \* the 'is-active' class
                    popover |-> m \in popover,
                    ariaHidden |-> "unset"]]]     \* aria-hidden of the popover

\* hide(marker)
hide(h, m) ==
  [h EXCEPT !.marker[m].active = FALSE,
            !.marker[m].ariaHidden = IF h.marker[m].popover THEN "true" ELSE @,
            !.activeId = IF @ = h.marker[m].id THEN Null ELSE @]

\* closeAll(): hide(m) for each marker, then activeId = null
RECURSIVE hideEach(_, _)
hideEach(h, ms) ==
  IF ms = {} THEN h
  ELSE LET m == CHOOSE x \in ms : TRUE IN hideEach(hide(h, m), ms \ {m})
closeAll(h) == [hideEach(h, Markers) EXCEPT !.activeId = Null]

\* a show(marker) that does not close the other popovers first
show_keepsOthers(h, m) ==
  [h EXCEPT !.marker[m].active = TRUE,
            !.marker[m].ariaHidden = IF h.marker[m].popover THEN "false" ELSE @,
            !.activeId = h.marker[m].id]

\* show(marker)
show(h, m) ==
  [closeAll(h) EXCEPT !.marker[m].active = TRUE,
                      !.marker[m].ariaHidden = IF h.marker[m].popover THEN "false" ELSE @,
                      !.activeId = h.marker[m].id]

\* toggle(marker)
toggle(h, m) == IF h.activeId = h.marker[m].id THEN hide(h, m) ELSE show(h, m)

\* a task of the hotspot image: nothing else on the page changes
hotspotTask(h) ==
  /\ hs' = h
  /\ dispatched' = <<>>
  /\ UNCHANGED <<pf, sd, ci, cd, fd, dom, timers, seq, qa, icon, pg, qs, ab>>

\* the pointer enters marker m
HotspotImage_mouseenter(m) == hs.attached /\ hotspotTask(show(hs, m))

\* the pointer leaves marker m
HotspotImage_mouseleave(m) == hs.attached /\ hotspotTask(hide(hs, m))

\* a click on marker m or inside its popover: toggle(marker); the document's
\* click listener then finds the marker with closest() and does nothing
HotspotImage_click(m) == hs.attached /\ hotspotTask(toggle(hs, m))

\* a click anywhere outside the markers: _onDocClick runs closeAll()
HotspotImage_outsideClick == hs.attached /\ hotspotTask(closeAll(hs))

\* disconnectedCallback: the element is removed from the page; the document's
\* click listener is removed
HotspotImage_disconnectedCallback ==
  hs.attached /\ hotspotTask([hs EXCEPT !.attached = FALSE])

HotspotImageNext ==
  \/ \E m \in Markers : HotspotImage_mouseenter(m)
  \/ \E m \in Markers : HotspotImage_mouseleave(m)
  \/ \E m \in Markers : HotspotImage_click(m)
  \/ HotspotImage_outsideClick
  \/ HotspotImage_disconnectedCallback

\* ======================================================================
\* AnnouncementBar  (src/assets/announcement-bar.js)
\* ======================================================================

\* text.charCodeAt(i) for the characters the announcements use
charCodeAt(c) == CASE c = "A" -> 65 [] c = "B" -> 66 [] OTHER -> 32

\* ((hash << 5) - hash + code) | 0: 31 * hash + code as a signed 32-bit
\* integer, computed on the two 16-bit halves of hash
hashStep(hash, code) ==
  LET hi == (hash \div 65536) % 65536
      lo == hash % 65536
      low == 31 * lo + code
      high == (31 * hi + (low \div 65536)) % 65536
  IN IF high >= 32768 THEN (high - 65536) * 65536 + (low % 65536)
     ELSE high * 65536 + (low % 65536)

\* the loop of getDismissKey over the characters of the text
RECURSIVE textHash(_, _)
textHash(hash, text) ==
  IF text = <<>> THEN hash
  ELSE textHash(hashStep(hash, charCodeAt(Head(text))), Tail(text))

\* the prefix of every storage key of the bar
KeyPrefix == "dismissed-announcement-"

\* getDismissKey(): markup.dismissKey is the data-dismiss-key attribute
\* (<<>> when absent or empty), markup.text the trimmed text content
getDismissKey(markup) ==
  IF markup.dismissKey # <<>> THEN <<KeyPrefix, markup.dismissKey>>
  ELSE <<KeyPrefix, String(<<textHash(0, markup.text)>>)>>

\* connectedCallback on a page whose localStorage holds `stored`; getThrows:
\* localStorage.getItem throws.  read is what the try block saw.
AnnouncementBar_connectedCallback(markup, stored, getThrows) ==
  LET storageKey == getDismissKey(markup)
      dismissed == ~getThrows /\ storageKey \in stored
  IN [attached   |-> ~dismissed,                \* this.remove()
      markup     |-> markup,
      storageKey |-> storageKey,
      read       |-> IF getThrows THEN "threw" ELSE IF dismissed THEN "found" ELSE "none",
      listening  |-> ~dismissed /\ markup.button,   \* click listener of [data-dismiss]
      clicks     |-> 0,                         \* dismiss clicks handled
      wrote      |-> "none",                    \* outcome of the last setItem
      opacity    |-> "",
      onEnd      |-> 0,                         \* transitionend listeners ({once: true})
      fallback   |-> 0]                         \* pending 350 ms timers

\* the click listener of the dismiss button; setThrows: setItem throws
dismiss(b, setThrows) ==
  [b EXCEPT !.clicks = @ + 1,
            !.wrote = IF setThrows THEN "threw" ELSE "stored",
            !.opacity = "0",
            !.onEnd = @ + 1,
            !.fallback = @ + 1]

\* a setItem that stores nothing
setItem_dropped(d, key, setThrows) == d

\* localStorage.setItem(storageKey, 'true')
setItem(d, key, setThrows) ==
  IF setThrows THEN d ELSE [d EXCEPT !.localStorage = @ \cup {key}]

\* a task of the announcement bar
barTask(b, d) ==
  /\ ab' = b
  /\ dom' = d
  /\ dispatched' = <<>>
  /\ UNCHANGED <<pf, sd, ci, cd, fd, timers, seq, qa, icon, pg, qs, hs>>

\* a page is loaded whose announcement bar has this markup: the element is
\* attached and connectedCallback runs; what the page before it left pending
\* is gone, localStorage is kept
AnnouncementBar_attach(markup, getThrows) ==
  /\ ab # Absent
  /\ barTask(AnnouncementBar_connectedCallback(markup, dom.localStorage, getThrows), dom)

\* a click on the dismiss button
AnnouncementBar_click(setThrows) ==
  /\ ab # Absent /\ ab.attached /\ ab.listening
  /\ ab.clicks < MaxClick
  /\ barTask(dismiss(ab, setThrows), setItem(dom, ab.storageKey, setThrows))

\* the fade ends: every transitionend listener runs this.remove()
AnnouncementBar_transitionend ==
  /\ ab # Absent /\ ab.attached /\ ab.onEnd > 0
  /\ barTask([ab EXCEPT !.attached = FALSE, !.onEnd = 0], dom)

\* a fallback timer fires: if (this.parentNode) this.remove()
AnnouncementBar_timeout ==
  /\ ab # Absent /\ ab.fallback > 0
  /\ barTask([ab EXCEPT !.fallback = @ - 1, !.attached = FALSE], dom)

\* the markup of the bars the shop shows
BarMarkups ==
  [dismissKey : {<<>>, <<"k">>, <<"6", "5">>}, text : {<<"A">>, <<"B">>}, button : BOOLEAN]

AnnouncementBarNext ==
  \/ \E markup \in BarMarkups, getThrows \in BOOLEAN : AnnouncementBar_attach(markup, getThrows)
  \/ \E setThrows \in BOOLEAN : AnnouncementBar_click(setThrows)
  \/ AnnouncementBar_transitionend
  \/ AnnouncementBar_timeout

\* ======================================================================
\* FilterDrawer  (src/assets/filter-drawer.js)
\* ======================================================================

ApplyIds == 1..MaxApply

\* the regions a response document can hold
DocShapes == {Regions, Regions \ {"[data-active-filters]", ".filter-footer"}}

\* fetchUrl.searchParams.set('section_id', ...) and
\* cleanUrl.searchParams.delete('section_id')
FetchUrl(url) == [url EXCEPT !.section = TRUE]
CleanUrl(url) == [url EXCEPT !.section = FALSE]

\* connectedCallback: the element after it is attached on a collection page
\* showing filter state "all".  sec: an ancestor carries data-section-id;
\* live: the regions the live section holds
FilterDrawer_connectedCallback(sec, live) ==
  [attached  |-> TRUE,
   sectionId |-> sec,
   loading   |-> FALSE,             \* 'is-loading' class of the section
   live      |-> live,
   region    |-> [g \in Regions |-> "all"],   \* filter state each region shows
   location  |-> [filter |-> "all", section |-> FALSE],   \* location.href
   history   |-> <<[filter |-> "all", section |-> FALSE]>>, \* session history
   index     |-> 1,                 \* position of the current entry in it
   apply     |-> [a \in ApplyIds |-> NotCalled],           \* applyFilters calls
   applies   |-> 0,                 \* number of applyFilters calls so far
   writer    |-> 0,                 \* observer: call whose response was merged last
   latestOk  |-> FALSE,             \* observer: the latest call's response was merged
   doc       |-> {},                \* observer: the regions of the document merged last
   closedBy  |-> 0]                 \* observer: the call whose merge closed the drawer last

\* applyFilters(url) up to the await of fetch
applyFilters(f, url) ==
  IF ~f.sectionId THEN f
  ELSE [f EXCEPT !.loading = TRUE,
                 !.applies = @ + 1,
                 !.latestOk = FALSE,
                 !.apply[f.applies + 1] = [pc |-> "fetch", url |-> url]]

\* the finally block of applyFilters, for call a
applyFinally(f, a) == [f EXCEPT !.apply[a] = Returned, !.loading = FALSE]

\* observer kept on the pages that watch it: the canonical URL of the
\* response merged last
noteApplied(f, cleanUrl) ==
  IF "applied" \in DOMAIN f THEN [f EXCEPT !.applied = <<cleanUrl>>] ELSE f

\* a swap that overwrites every live region, whatever the incoming document holds
swap_always(f, doc, shown) ==
  [f EXCEPT !.region = [g \in Regions |-> IF g \in f.live THEN shown ELSE f.region[g]]]

\* swap(selector, doc) for the four section regions, then swapDrawer(doc):
\* a live region takes the incoming content when both exist
swap(f, doc, shown) ==
  [f EXCEPT !.region = [g \in Regions |->
                          IF g \in f.live /\ g \in doc THEN shown ELSE f.region[g]]]

\* a pushState that does not compare cleanUrl with the location
pushState_always(f, cleanUrl) ==
  [f EXCEPT !.location = cleanUrl,
            !.history = Append(SubSeq(f.history, 1, f.index), cleanUrl),
            !.index = @ + 1]

\* history.pushState({}, '', cleanUrl) when cleanUrl differs from the location
pushState(f, cleanUrl) ==
  IF cleanUrl # f.location
    THEN [f EXCEPT !.location = cleanUrl,
                   !.history = Append(SubSeq(f.history, 1, f.index), cleanUrl),
                   !.index = @ + 1]
    ELSE f

\* an applyFilters that leaves the drawer as it is after the merge
closeIfOpen_stay(d) == d

\* if (this.isOpen) this.close();
closeIfOpen(d) == IF d.overlay["filter"].isOpen THEN close(d, "filter") ELSE d

\* a click on a filter link, a pill or the clear link with href url, or a
\* change of the sort select that yields url: applyFilters(url)
FilterDrawer_click(url) ==
  /\ fd.attached
  /\ fd.applies < MaxApply
  /\ fd' = applyFilters(fd, url)
  /\ dispatched' = <<>>
  /\ UNCHANGED <<widgets, pf, sd, ci, cd, dom, timers, seq, qs>>

\* the user goes back or forward to history entry i: _onPopState runs
\* applyFilters(location.href)
FilterDrawer_popstate(i) ==
  /\ fd # Absent
  /\ Listening(dom, "filter", "popstate")
  /\ fd.applies < MaxApply
  /\ i \in 1..Len(fd.history) /\ i # fd.index
  /\ fd' = LET f == applyFilters([fd EXCEPT !.index = i, !.location = fd.history[i]],
                                 fd.history[i])
            IN IF f.applies > fd.applies             \* observer: the call came from popstate
                 THEN [f EXCEPT !.apply[f.applies] = [pc |-> "fetch", url |-> fd.history[i], pop |-> TRUE]]
                 ELSE f
  /\ dispatched' = <<>>
  /\ UNCHANGED <<widgets, pf, sd, ci, cd, dom, timers, seq, qs>>

\* applyFilters: the fetch promise resolves with a response
FilterDrawer_applyFilters_response(a, ok) ==
  /\ fd # Absent
  /\ fd.apply[a].pc = "fetch"
  /\ fd' = IF ok THEN [fd EXCEPT !.apply[a].pc = "text"] ELSE applyFinally(fd, a)
  /\ dispatched' = <<>>
  /\ UNCHANGED <<widgets, pf, sd, ci, cd, dom, timers, seq, qs>>

\* applyFilters: the fetch promise rejects (network error)
FilterDrawer_applyFilters_reject(a) ==
  /\ fd # Absent
  /\ fd.apply[a].pc = "fetch"
  /\ fd' = applyFinally(fd, a)
  /\ dispatched' = <<>>
  /\ UNCHANGED <<widgets, pf, sd, ci, cd, dom, timers, seq, qs>>

\* applyFilters: response.text() resolves with a document holding the regions
\* doc, rendered for the requested filter state: the regions are merged, the
\* history is updated and an open drawer is closed
FilterDrawer_applyFilters_text(a, doc) ==
  LET url == fd.apply[a].url
      merged == swap([noteApplied(fd, CleanUrl(url)) EXCEPT !.writer = a,
                                !.doc = doc,
                                !.closedBy = IF dom.overlay["filter"].isOpen THEN a ELSE @,
                                !.latestOk = IF a = fd.applies THEN TRUE ELSE @],
                     doc, url.filter)
      swapped == IF ".filter-body" \in fd.live /\ ".filter-body" \in doc
                   THEN detach(dom, {"filter.link"}) ELSE dom
  IN
  /\ fd # Absent
  /\ fd.apply[a].pc = "text"
  /\ fd' = applyFinally(pushState(merged, CleanUrl(url)), a)
  /\ dom' = closeIfOpen(swapped)
  /\ seq' = IF swapped.overlay["filter"].isOpen
              THEN afterClose(IF swapped = dom THEN seq ELSE NoSeq, dom', "filter")
              ELSE IF swapped = dom THEN seq ELSE NoSeq
  /\ dispatched' = <<>>
  /\ UNCHANGED <<widgets, pf, sd, ci, cd, timers, qs>>

\* applyFilters: response.text() rejects (the body could not be read)
FilterDrawer_applyFilters_textReject(a) ==
  /\ fd # Absent
  /\ fd.apply[a].pc = "text"
  /\ fd' = applyFinally(fd, a)
  /\ dispatched' = <<>>
  /\ UNCHANGED <<widgets, pf, sd, ci, cd, dom, timers, seq, qs>>

\* the trigger's click listener: open(); the listener stays on the trigger
\* when the drawer is removed
FilterDrawer_open ==
  /\ "filter" \in DOMAIN dom.overlay
  /\ dom' = open(dom, "filter")
  /\ seq' = afterOpen(seq, dom, dom', "filter")
  /\ dispatched' = <<>>
  /\ UNCHANGED <<widgets, pf, sd, ci, cd, fd, timers, qs>>

\* the click listeners of the [data-close] buttons and of the overlay: close()
FilterDrawer_close ==
  /\ "filter" \in DOMAIN dom.overlay /\ "filter" \notin dom.detached
  /\ dom' = close(dom, "filter")
  /\ seq' = afterClose(seq, dom', "filter")
  /\ dispatched' = <<>>
  /\ UNCHANGED <<widgets, pf, sd, ci, cd, fd, timers, qs>>

\* disconnectedCallback: the drawer is removed from the page; the popstate
\* listener is removed, nothing else is undone
FilterDrawer_disconnectedCallback ==
  /\ fd.attached
  /\ fd' = [fd EXCEPT !.attached = FALSE]
  /\ dom' = [remove(dom, "filter") EXCEPT !.listeners = unsubscribe(@, "filter", "popstate")]
  /\ seq' = NoSeq
  /\ dispatched' = <<>>
  /\ UNCHANGED <<widgets, pf, sd, ci, cd, timers, qs>>

FilterDrawerNext ==
  \/ \E url \in Urls : FilterDrawer_click(url)
  \/ \E i \in 1..(MaxApply + 1) : FilterDrawer_popstate(i)
  \/ \E a \in ApplyIds, ok \in BOOLEAN : FilterDrawer_applyFilters_response(a, ok)
  \/ \E a \in ApplyIds : FilterDrawer_applyFilters_reject(a)
  \/ \E a \in ApplyIds, doc \in DocShapes : FilterDrawer_applyFilters_text(a, doc)
  \/ \E a \in ApplyIds : FilterDrawer_applyFilters_textReject(a)
  \/ FilterDrawer_open
  \/ FilterDrawer_close

\* ======================================================================
\* the clock
\* ======================================================================

\* 100 ms pass with no task run; a due timer runs first
Tick ==
  /\ timers # {}
  /\ \A t \in timers : t.left > 0
  /\ timers' = elapse(timers)
  /\ sd' = IF sd # Absent THEN [sd EXCEPT !.quiet = cap(@)] ELSE sd
  /\ ci' = IF ci # Absent THEN [ci EXCEPT !.quiet = cap(@)] ELSE ci
  /\ dispatched' = <<>>
  /\ UNCHANGED <<widgets, pf, cd, fd, dom, seq, qs>>

\* ======================================================================
\* pages and specifications
\* ======================================================================

KeyboardKeys == {"Escape", "Tab", "Enter"}

OverlayNext ==
  \/ CartDrawer_open
  \/ CartDrawer_close
  \/ FilterDrawer_open
  \/ FilterDrawer_close
  \/ MobileMenu_open
  \/ MobileMenu_close
  \/ SearchDrawer_open
  \/ SearchDrawer_close
  \/ \E key \in KeyboardKeys, shiftKey \in BOOLEAN : Keydown(key, shiftKey)
  \/ \E el \in PageElements \cup UNION {Range(Focusables(o)) : o \in Overlays} :
        UserFocus(el)

\* a page holding every component
Init ==
  /\ pf = ProductForm_connectedCallback(TRUE, TRUE, "drawer")
  /\ sd = SearchDrawer_connectedCallback
  /\ ci = CartItems_connectedCallback(FALSE, TRUE)
  /\ cd = CartDrawer_connectedCallback(TRUE)
  /\ fd = FilterDrawer_connectedCallback(TRUE, Regions)
  /\ qa = QuickAdd_connectedCallback(TRUE)
  /\ icon = CartIcon_connectedCallback
  /\ pg = ProductGallery_connectedCallback(TRUE, TRUE, TRUE)
  /\ dom = ProductGallery_connected(CartIcon_connected(Document(Overlays, "body")), pg)
  /\ timers = {}
  /\ dispatched = <<>>
  /\ seq = NoSeq

Next ==
  \/ ProductFormNext
  \/ QuickAddNext
  \/ SearchDrawerNext
  \/ CartItemsNext
  \/ CartDrawerNext
  \/ CartIconNext
  \/ FilterDrawerNext
  \/ OverlayNext
  \/ \E shiftKey \in BOOLEAN : Tab(shiftKey)
  \/ ProductGallery_scriptLoad
  \/ CartDrawer_disconnectedCallback
  \/ CartIcon_disconnectedCallback
  \/ CartItems_disconnected
  \/ FilterDrawer_disconnectedCallback
  \/ MobileMenu_disconnectedCallback
  \/ ProductGallery_disconnectedCallback
  \/ SearchDrawer_disconnectedCallback
  \/ Tick

Spec == Init /\ [][Next]_vars

\* a page with nothing on it but the components named by each specification
NoPage ==
  /\ qa = Absent /\ icon = Absent /\ pg = Absent /\ qs = Absent /\ hs = Absent /\ ab = Absent
  /\ timers = {}
  /\ dispatched = <<>>
  /\ seq = NoSeq

\* a product page: the product form in each of its configurations
InitProductForm ==
  /\ \E sec \in BOOLEAN, err \in BOOLEAN, ct \in CartTypes :
        pf = ProductForm_connectedCallback(sec, err, ct)
  /\ sd = Absent /\ ci = Absent /\ cd = Absent /\ fd = Absent
  /\ dom = Document({}, "body")
  /\ NoPage

SpecProductForm == InitProductForm /\ [][ProductFormNext]_vars

\* the search drawer and its predictive search
InitSearch ==
  /\ sd = SearchDrawer_connectedCallback
  /\ pf = Absent /\ ci = Absent /\ cd = Absent /\ fd = Absent
  /\ dom = Document({"search"}, "body")
  /\ NoPage

SpecSearch == InitSearch /\ [][SearchDrawerNext \/ Tick]_vars

\* the cart page: <cart-items> outside the drawer
InitCartItems ==
  /\ \E errEl \in BOOLEAN : ci = CartItems_connectedCallback(FALSE, errEl)
  /\ pf = Absent /\ sd = Absent /\ cd = Absent /\ fd = Absent
  /\ dom = Document({}, "body")
  /\ NoPage

SpecCartItems == InitCartItems /\ [][CartItemsNext \/ Tick]_vars

\* the two debounced inputs, their timers and the clock
InitDebounce ==
  /\ ci = CartItems_connectedCallback(FALSE, TRUE)
  /\ sd = SearchDrawer_connectedCallback
  /\ pf = Absent /\ cd = Absent /\ fd = Absent
  /\ dom = Document({"search"}, "body")
  /\ NoPage

DebounceNext ==
  \/ \E k \in Keys, q \in Quantities : CartItems_change(k, q)
  \/ \E k \in Keys : CartItems_removeClick(k)
  \/ \E t \in timers : CartItems_debounceFires(t)
  \/ \E v \in InputValues : SearchDrawer_onInput(v)
  \/ \E t \in timers : SearchDrawer_fetchResults(t)
  \/ Tick

SpecDebounce == InitDebounce /\ [][DebounceNext]_vars

\* a collection page: the filter drawer in each of its configurations
InitFilter ==
  /\ \E sec \in BOOLEAN, live \in DocShapes : fd = FilterDrawer_connectedCallback(sec, live)
  /\ pf = Absent /\ sd = Absent /\ ci = Absent /\ cd = Absent
  /\ dom = Document({"filter"}, "body")
  /\ NoPage

FilterNext ==
  \/ FilterDrawerNext
  \/ \E key \in KeyboardKeys, shiftKey \in BOOLEAN : Keydown(key, shiftKey)
  \/ \E el \in PageElements \cup Range(Focusables("filter")) : UserFocus(el)

SpecFilter == InitFilter /\ [][FilterNext]_vars

\* a page with any two of the four overlays, focus starting anywhere on it
InitOverlay ==
  /\ \E pair \in {S \in SUBSET Overlays : Cardinality(S) = 2}, el \in PageElements :
        /\ dom = Document(pair, el)
        /\ cd = IF "cart" \in pair THEN CartDrawer_connectedCallback(TRUE) ELSE Absent
  /\ pf = Absent /\ sd = Absent /\ ci = Absent /\ fd = Absent
  /\ NoPage

SpecOverlay == InitOverlay /\ [][OverlayNext]_vars

\* the cart drawer and the cart events it subscribes to
InitCartDrawer ==
  /\ \E footer \in BOOLEAN : cd = CartDrawer_connectedCallback(footer)
  /\ pf = Absent /\ sd = Absent /\ ci = Absent /\ fd = Absent
  /\ dom = Document({"cart"}, "body")
  /\ NoPage

SpecCartDrawer == InitCartDrawer /\ [][CartDrawerNext]_vars

\* a product page with the cart drawer: add to cart, the cart events and the
\* drawer's reaction to them
InitAddToCart ==
  /\ \E ct \in CartTypes : pf = ProductForm_connectedCallback(FALSE, TRUE, ct)
  /\ cd = CartDrawer_connectedCallback(TRUE)
  /\ sd = Absent /\ ci = Absent /\ fd = Absent
  /\ dom = Document({"cart"}, "body")
  /\ NoPage

AddToCartNext ==
  \/ ProductForm_handleSubmit
  \/ \E s \in SubmitIds, ok \in BOOLEAN : ProductForm_handleSubmit_response(s, ok)
  \/ \E s \in SubmitIds : ProductForm_handleSubmit_reject(s)
  \/ \E s \in SubmitIds : ProductForm_handleSubmit_errorBody(s, NoDesc)
  \/ \E s \in SubmitIds, p \in BOOLEAN : ProductForm_handleSubmit_body(s, p)
  \/ \E html \in {f \in Fragments : ~f.drawer /\ ~f.footer /\ f.cart = "A"} :
        CartDrawer_onCartUpdated(FALSE, html)
  \/ CartDrawer_close
  \/ \E r \in RefreshIds, ok \in BOOLEAN : CartDrawer_refresh_response(r, ok)
  \/ \E r \in RefreshIds : CartDrawer_refresh_reject(r)
  \/ \E r \in RefreshIds, html \in {f \in Fragments : f.drawer /\ f.cart = "B"} :
        CartDrawer_refresh_text(r, html)
  \/ \E r \in RefreshIds : CartDrawer_refresh_textReject(r)

SpecAddToCart == InitAddToCart /\ [][AddToCartNext]_vars

\* the three fragment fetchers, each on a page of its own: the product form's
\* variant render, the filter drawer on a collection page, and the cart
\* drawer's standalone refresh
InitFragments ==
  \/ /\ \E err \in BOOLEAN : pf = ProductForm_connectedCallback(TRUE, err, "drawer")
     /\ sd = Absent /\ ci = Absent /\ cd = Absent /\ fd = Absent
     /\ dom = Document({}, "body")
     /\ NoPage
  \/ /\ \E live \in DocShapes : fd = FilterDrawer_connectedCallback(TRUE, live)
     /\ pf = Absent /\ sd = Absent /\ ci = Absent /\ cd = Absent
     /\ dom = Document({"filter"}, "body")
     /\ NoPage
  \/ /\ cd = CartDrawer_connectedCallback(TRUE)
     /\ pf = Absent /\ sd = Absent /\ ci = Absent /\ fd = Absent
     /\ dom = Document({"cart"}, "body")
     /\ NoPage

FragmentsNext ==
  \/ \E v \in VariantIds : ProductForm_handleVariantChange(v)
  \/ \E r \in RenderIds, ok \in BOOLEAN, hasRegions \in BOOLEAN :
        ProductForm_renderVariantSections_response(r, ok, hasRegions)
  \/ \E r \in RenderIds : ProductForm_renderVariantSections_reject(r)
  \/ \E r \in RenderIds : ProductForm_renderVariantSections_text(r)
  \/ \E r \in RenderIds : ProductForm_renderVariantSections_textReject(r)
  \/ FilterDrawerNext
  \/ CartDrawer_onItemAdded
  \/ \E html \in {f \in Fragments : ~f.drawer /\ ~f.footer /\ f.cart = "A"} :
        CartDrawer_onCartUpdated(FALSE, html)
  \/ CartDrawer_open
  \/ CartDrawer_close
  \/ \E r \in RefreshIds, ok \in BOOLEAN : CartDrawer_refresh_response(r, ok)
  \/ \E r \in RefreshIds : CartDrawer_refresh_reject(r)
  \/ \E r \in RefreshIds, html \in {f \in Fragments : f.drawer /\ f.cart = "B"} :
        CartDrawer_refresh_text(r, html)
  \/ \E r \in RefreshIds : CartDrawer_refresh_textReject(r)

SpecFragments == InitFragments /\ [][FragmentsNext]_vars

\* a collection page: a product card's quick-add button, the cart drawer and
\* the cart icon
InitQuickAdd ==
  /\ \E link \in BOOLEAN : qa = QuickAdd_connectedCallback(link)
  /\ cd = CartDrawer_connectedCallback(TRUE)
  /\ icon = CartIcon_connectedCallback
  /\ dom = CartIcon_connected(Document({"cart"}, "body"))
  /\ pf = Absent /\ sd = Absent /\ ci = Absent /\ fd = Absent /\ pg = Absent
  /\ timers = {}
  /\ dispatched = <<>>
  /\ seq = NoSeq
  /\ qs = Absent /\ hs = Absent /\ ab = Absent

QuickAddPageNext ==
  \/ QuickAddNext
  \/ CartIconNext
  \/ CartDrawer_close
  \/ \E r \in RefreshIds, ok \in BOOLEAN : CartDrawer_refresh_response(r, ok)
  \/ \E r \in RefreshIds : CartDrawer_refresh_reject(r)
  \/ \E r \in RefreshIds, html \in {f \in Fragments : f.drawer /\ f.footer /\ f.cart = "B"} :
        CartDrawer_refresh_text(r, html)
  \/ \E r \in RefreshIds : CartDrawer_refresh_textReject(r)

SpecQuickAdd == InitQuickAdd /\ [][QuickAddPageNext]_vars

\* the cart page with the cart drawer (closed) and the cart icon listening
InitCartPage ==
  /\ \E errEl \in BOOLEAN : ci = CartItems_connectedCallback(FALSE, errEl)
  /\ cd = CartDrawer_connectedCallback(TRUE)
  /\ icon = CartIcon_connectedCallback
  /\ dom = CartIcon_connected(Document({"cart"}, "body"))
  /\ pf = Absent /\ sd = Absent /\ fd = Absent /\ qa = Absent /\ pg = Absent
  /\ timers = {}
  /\ dispatched = <<>>
  /\ seq = NoSeq
  /\ qs = Absent /\ hs = Absent /\ ab = Absent

SpecCartPage == InitCartPage /\ [][CartItemsNext \/ Tick]_vars

\* a product page whose components subscribe to the domain events: the cart
\* drawer, the cart icon and the gallery (the carousel library loaded or still
\* loading), with the product form publishing; each element is removed from
\* the page at any moment
InitLifecycle ==
  /\ pf = ProductForm_connectedCallback(FALSE, TRUE, "drawer")
  /\ cd = CartDrawer_connectedCallback(TRUE)
  /\ icon = CartIcon_connectedCallback
  /\ \E library \in BOOLEAN : pg = ProductGallery_connectedCallback(TRUE, library, TRUE)
  /\ dom = ProductGallery_connected(CartIcon_connected(Document({"cart"}, "body")), pg)
  /\ sd = Absent /\ ci = Absent /\ fd = Absent /\ qa = Absent
  /\ timers = {}
  /\ dispatched = <<>>
  /\ seq = NoSeq
  /\ qs = Absent /\ hs = Absent /\ ab = Absent

LifecycleNext ==
  \/ \E v \in VariantIds : ProductForm_handleVariantChange(v)
  \/ CartDrawer_onItemAdded
  \/ \E html \in {f \in Fragments : ~f.drawer /\ ~f.footer} :
        CartDrawer_onCartUpdated(FALSE, html)
  \/ CartDrawer_disconnectedCallback
  \/ CartIcon_disconnectedCallback
  \/ ProductGallery_scriptLoad
  \/ ProductGallery_disconnectedCallback
  \/ \E r \in RefreshIds : CartDrawer_refresh_reject(r)
  \/ \E k \in CountIds : CartIcon_fetchCartCount_reject(k)

SpecLifecycle == InitLifecycle /\ [][LifecycleNext]_vars

\* a page with one of the four overlays, or with <cart-items>; the element is
\* removed from the page at any moment: open or closed, with or without a
\* pending debounce timer
InitTeardown ==
  /\ \/ \E o \in Overlays :
          /\ dom = Document({o}, "body")
          /\ cd = IF o = "cart" THEN CartDrawer_connectedCallback(TRUE) ELSE Absent
          /\ fd = IF o = "filter"
                    THEN FilterDrawer_connectedCallback(TRUE, Regions) ELSE Absent
          /\ sd = IF o = "search" THEN SearchDrawer_connectedCallback ELSE Absent
          /\ ci = Absent
     \/ /\ dom = Document({}, "body")
        /\ ci = CartItems_connectedCallback(FALSE, TRUE)
        /\ cd = Absent /\ fd = Absent /\ sd = Absent
  /\ pf = Absent
  /\ NoPage

TeardownNext ==
  \/ CartDrawer_open
  \/ CartDrawer_close
  \/ CartDrawer_disconnectedCallback
  \/ FilterDrawer_open
  \/ FilterDrawer_close
  \/ FilterDrawer_disconnectedCallback
  \/ MobileMenu_open
  \/ MobileMenu_close
  \/ MobileMenu_disconnectedCallback
  \/ SearchDrawer_open
  \/ SearchDrawer_close
  \/ SearchDrawer_disconnectedCallback
  \/ \E v \in InputValues : SearchDrawer_onInput(v)
  \/ \E t \in timers : SearchDrawer_fetchResults(t)
  \/ \E r \in SearchIds : SearchDrawer_fetchResults_reject(r)
  \/ \E k \in Keys, q \in Quantities : CartItems_change(k, q)
  \/ CartItems_disconnected
  \/ \E t \in timers : CartItems_debounceFires(t)
  \/ \E u \in UpdateIds : CartItems_updateItem_reject(u)
  \/ \E key \in KeyboardKeys, shiftKey \in BOOLEAN : Keydown(key, shiftKey)
  \/ Tick

SpecTeardown == InitTeardown /\ [][TeardownNext]_vars

\* a page with one overlay, operated from the keyboard; the cart drawer is
\* re-rendered from bundled sections while open
InitFocus ==
  /\ \E o \in Overlays :
        /\ dom = Document({o}, "body")
        /\ cd = IF o = "cart" THEN CartDrawer_connectedCallback(TRUE) ELSE Absent
  /\ pf = Absent /\ sd = Absent /\ ci = Absent /\ fd = Absent
  /\ NoPage

FocusNext ==
  \/ CartDrawer_open
  \/ CartDrawer_close
  \/ FilterDrawer_open
  \/ FilterDrawer_close
  \/ MobileMenu_open
  \/ MobileMenu_close
  \/ SearchDrawer_open
  \/ SearchDrawer_close
  \/ \E shiftKey \in BOOLEAN : Tab(shiftKey)
  \/ Keydown("Escape", FALSE)
  \/ \E el \in UNION {Range(Focusables(o)) : o \in Overlays} : UserFocus(el)
  \/ \E html \in {f \in Fragments : f.drawer} : CartDrawer_onCartUpdated(TRUE, html)

SpecFocus == InitFocus /\ [][FocusNext]_vars

\* a page with any two of the four overlays, operated by clicks and keys, with
\* the fragment merges of the cart drawer (a bundled section) and of the
\* filter drawer (applyFilters)
InitOpenState ==
  /\ \E pair \in {S \in SUBSET Overlays : Cardinality(S) = 2} :
        /\ dom = Document(pair, "body")
        /\ cd = IF "cart" \in pair THEN CartDrawer_connectedCallback(TRUE) ELSE Absent
        /\ fd = IF "filter" \in pair
                  THEN FilterDrawer_connectedCallback(TRUE, Regions) ELSE Absent
  /\ pf = Absent /\ sd = Absent /\ ci = Absent
  /\ NoPage

OpenStateNext ==
  \/ CartDrawer_open
  \/ CartDrawer_close
  \/ FilterDrawer_open
  \/ FilterDrawer_close
  \/ MobileMenu_open
  \/ MobileMenu_close
  \/ SearchDrawer_open
  \/ SearchDrawer_close
  \/ \E key \in KeyboardKeys, shiftKey \in BOOLEAN : Keydown(key, shiftKey)
  \/ \E el \in UNION {Range(Focusables(o)) : o \in Overlays} : UserFocus(el)
  \/ CartDrawer_onCartUpdated(TRUE, [cart |-> "B", drawer |-> TRUE, footer |-> TRUE])
  \/ \E url \in {u \in Urls : ~u.section /\ u.filter # "all"} : FilterDrawer_click(url)
  \/ \E a \in ApplyIds : FilterDrawer_applyFilters_response(a, TRUE)
  \/ \E a \in ApplyIds : FilterDrawer_applyFilters_text(a, Regions)

SpecOpenState == InitOpenState /\ [][OpenStateNext]_vars

\* a collection page with the filter drawer, or a page with the cart drawer:
\* fragments applied to each while it is open and while it is closed
InitApply ==
  \/ /\ \E live \in DocShapes : fd = FilterDrawer_connectedCallback(TRUE, live)
     /\ pf = Absent /\ sd = Absent /\ ci = Absent /\ cd = Absent
     /\ dom = Document({"filter"}, "body")
     /\ NoPage
  \/ /\ cd = CartDrawer_connectedCallback(TRUE)
     /\ pf = Absent /\ sd = Absent /\ ci = Absent /\ fd = Absent
     /\ dom = Document({"cart"}, "body")
     /\ NoPage

ApplyNext ==
  \/ \E url \in {u \in Urls : u.filter # "all" /\ ~u.section} : FilterDrawer_click(url)
  \/ \E a \in ApplyIds, ok \in BOOLEAN : FilterDrawer_applyFilters_response(a, ok)
  \/ \E a \in ApplyIds : FilterDrawer_applyFilters_reject(a)
  \/ \E a \in ApplyIds : FilterDrawer_applyFilters_text(a, Regions)
  \/ \E a \in ApplyIds : FilterDrawer_applyFilters_textReject(a)
  \/ FilterDrawer_open
  \/ FilterDrawer_close
  \/ CartDrawer_onItemAdded
  \/ \E hasSection \in BOOLEAN :
        CartDrawer_onCartUpdated(hasSection, [cart |-> "B", drawer |-> hasSection, footer |-> hasSection])
  \/ CartDrawer_open
  \/ CartDrawer_close
  \/ \E r \in RefreshIds, ok \in BOOLEAN : CartDrawer_refresh_response(r, ok)
  \/ \E r \in RefreshIds : CartDrawer_refresh_reject(r)
  \/ \E r \in RefreshIds :
        CartDrawer_refresh_text(r, [cart |-> "A", drawer |-> TRUE, footer |-> TRUE])
  \/ \E r \in RefreshIds : CartDrawer_refresh_textReject(r)
  \/ UserFocus("cart.item")

SpecApply == InitApply /\ [][ApplyNext]_vars

\* a page whose cart drawer holds <cart-items>, with the cart icon: quantity
\* changes inside the drawer while section fetches of the drawer and /cart.js
\* fetches of the icon are in flight
InitDelivery ==
  /\ ci = CartItems_connectedCallback(TRUE, TRUE)
  /\ cd = CartDrawer_connectedCallback(TRUE)
  /\ icon = CartIcon_connectedCallback
  /\ dom = CartIcon_connected(Document({"cart"}, "body"))
  /\ pf = Absent /\ sd = Absent /\ fd = Absent /\ qa = Absent /\ pg = Absent
  /\ timers = {}
  /\ dispatched = <<>>
  /\ seq = NoSeq
  /\ qs = Absent /\ hs = Absent /\ ab = Absent

DeliveryNext ==
  \/ CartItems_change("k1", 2)
  \/ \E t \in timers : CartItems_debounceFires(t)
  \/ \E u \in UpdateIds, ok \in BOOLEAN : CartItems_updateItem_response(u, ok)
  \/ \E u \in UpdateIds, footer \in BOOLEAN :
        CartItems_updateItem_json(u, "ok",
           CartUpdated(TRUE, [cart |-> "B", drawer |-> TRUE, footer |-> footer]))
  \/ Tick
  \/ CartDrawer_onItemAdded
  \/ CartDrawer_open
  \/ \E r \in RefreshIds : CartDrawer_refresh_response(r, TRUE)
  \/ \E r \in RefreshIds :
        CartDrawer_refresh_text(r, [cart |-> "A", drawer |-> TRUE, footer |-> TRUE])
  \/ \E k \in CountIds : CartIcon_fetchCartCount_response(k, TRUE)
  \/ \E k \in CountIds : CartIcon_fetchCartCount_json(k, "A")

SpecDelivery == InitDelivery /\ [][DeliveryNext]_vars

\* a page with the cart drawer and the cart events, every request answered
\* with the section's markup; the drawer also records which refresh() calls a
\* fragment found in flight
InitSupersede ==
  /\ cd = CartDrawer_connectedCallback(TRUE) @@ [superseded |-> {}]
  /\ pf = Absent /\ sd = Absent /\ ci = Absent /\ fd = Absent
  /\ dom = Document({"cart"}, "body")
  /\ NoPage

SupersedeNext ==
  \/ CartDrawer_onItemAdded
  \/ \E hasSection \in BOOLEAN, cart \in Carts :
        CartDrawer_onCartUpdated(hasSection,
                                 [cart |-> cart, drawer |-> hasSection, footer |-> hasSection])
  \/ CartDrawer_open
  \/ CartDrawer_close
  \/ \E r \in RefreshIds : CartDrawer_refresh_response(r, TRUE)
  \/ \E r \in RefreshIds, cart \in Carts :
        CartDrawer_refresh_text(r, [cart |-> cart, drawer |-> TRUE, footer |-> TRUE])

SpecSupersede == InitSupersede /\ [][SupersedeNext]_vars

\* a page with the cart icon and the cart drawer, and the cart events in any
\* order with the icon's /cart.js fetches; the icon also records which
\* fetchCartCount calls a newer count found in flight
InitCartIcon ==
  /\ icon = CartIcon_connectedCallback @@ [overtaken |-> {}]
  /\ cd = CartDrawer_connectedCallback(TRUE)
  /\ dom = CartIcon_connected(Document({"cart"}, "body"))
  /\ pf = Absent /\ sd = Absent /\ ci = Absent /\ fd = Absent /\ qa = Absent /\ pg = Absent
  /\ timers = {}
  /\ dispatched = <<>>
  /\ seq = NoSeq
  /\ qs = Absent /\ hs = Absent /\ ab = Absent

CartIconPageNext ==
  \/ CartDrawer_onItemAdded
  \/ \E cart \in Carts :
        CartDrawer_onCartUpdated(FALSE, [cart |-> cart, drawer |-> FALSE, footer |-> FALSE])
  \/ \E r \in RefreshIds : CartDrawer_refresh_reject(r)
  \/ CartIconNext

SpecCartIcon == InitCartIcon /\ [][CartIconPageNext]_vars

\* a quantity selector on a product page, with each combination of min and
\* max attributes, or inside <cart-items> on the cart page
EditTexts == {<<>>, <<"a", "b">>, <<"5">>, <<"-", "1">>, <<"2", ".", "5">>,
              <<"1", "2", "0">>, <<"1", "e", "1">>, <<" ", "7">>}
InitQuantity ==
  /\ \/ /\ \E min \in {<<>>, <<"0">>, <<"1">>}, max \in {<<>>, <<"0">>, <<"5">>},
                value \in {<<>>, <<"1">>} :
             qs = QuantitySelector_connectedCallback(min, max, value)
        /\ ci = Absent
     \/ /\ \E min \in {<<"0">>, <<"1">>}, value \in {<<"1">>, <<"2">>} :
             qs = QuantitySelector_connectedCallback(min, <<"3">>, value)
        /\ ci = CartItems_connectedCallback(FALSE, TRUE)
  /\ pf = Absent /\ sd = Absent /\ cd = Absent /\ fd = Absent
  /\ dom = Document({}, "body")
  /\ qa = Absent /\ icon = Absent /\ pg = Absent /\ hs = Absent /\ ab = Absent
  /\ timers = {}
  /\ dispatched = <<>>
  /\ seq = NoSeq

QuantityNext ==
  \/ \E delta \in {-1, 1} : QuantitySelector_click(delta)
  \/ \E text \in EditTexts : QuantitySelector_edit(text)
  \/ \E t \in timers : CartItems_debounceFires(t)
  \/ \E u \in UpdateIds : CartItems_updateItem_reject(u)
  \/ Tick

SpecQuantity == InitQuantity /\ [][QuantityNext]_vars

\* a page with a hotspot image: three markers with distinct data-hotspot
\* values, each with or without a popover
InitHotspot ==
  /\ \E id \in {f \in [Markers -> HotspotIds] : \A m, n \in Markers : f[m] = f[n] => m = n},
        popover \in SUBSET Markers :
        hs = HotspotImage_connectedCallback(id, popover)
  /\ pf = Absent /\ sd = Absent /\ ci = Absent /\ cd = Absent /\ fd = Absent
  /\ dom = Document({}, "body")
  /\ qa = Absent /\ icon = Absent /\ pg = Absent /\ qs = Absent /\ ab = Absent
  /\ timers = {}
  /\ dispatched = <<>>
  /\ seq = NoSeq

SpecHotspot == InitHotspot /\ [][HotspotImageNext]_vars

\* a page with an announcement bar; nothing is stored yet, and localStorage
\* is kept from one page to the next
InitAnnouncement ==
  /\ \E markup \in BarMarkups, getThrows \in BOOLEAN :
        ab = AnnouncementBar_connectedCallback(markup, {}, getThrows)
  /\ dom = Document({}, "body") @@ [localStorage |-> {}]
  /\ pf = Absent /\ sd = Absent /\ ci = Absent /\ cd = Absent /\ fd = Absent
  /\ qa = Absent /\ icon = Absent /\ pg = Absent /\ qs = Absent /\ hs = Absent
  /\ timers = {}
  /\ dispatched = <<>>
  /\ seq = NoSeq

\* a pending timer of the page fires unless the page is left first
SpecAnnouncement ==
  InitAnnouncement /\ [][AnnouncementBarNext]_vars /\ WF_vars(AnnouncementBar_timeout)

\* the cart page with the observer of the last action on each line item
InitLastAction ==
  /\ \E errEl \in BOOLEAN :
        ci = CartItems_connectedCallback(FALSE, errEl) @@ [lastRemoved |-> {}]
  /\ pf = Absent /\ sd = Absent /\ cd = Absent /\ fd = Absent
  /\ dom = Document({}, "body")
  /\ NoPage

SpecLastAction == InitLastAction /\ [][CartItemsNext \/ Tick]_vars

\* a collection page with the observer of the URL merged last
InitUrlGrid ==
  /\ \E live \in DocShapes :
        fd = FilterDrawer_connectedCallback(TRUE, live) @@ [applied |-> <<>>]
  /\ pf = Absent /\ sd = Absent /\ ci = Absent /\ cd = Absent
  /\ dom = Document({"filter"}, "body")
  /\ NoPage

SpecUrlGrid == InitUrlGrid /\ [][FilterDrawerNext]_vars

\* ======================================================================
\* properties
\* ======================================================================

pfSettled == \A r \in RenderIds : pf.render[r].pc \in {"new", "done"}
sdSettled == \A r \in SearchIds : sd.fetch[r].pc \in {"new", "done"}
fdSettled == \A a \in ApplyIds : fd.apply[a].pc \in {"new", "done"}

\* C1: a response of renderVariantSections is written into the
\* [data-variant-render] regions only if its request id equals
\* renderRequestId at the moment it is written (so the writing request never
\* goes back to an older one); and once every request has settled, if the
\* most recently issued request succeeded the regions show its variant.
C1_TokenDiscard ==
  /\ [][pf.writer' # pf.writer =>
          /\ pf.writer' = pf.renderRequestId'
          /\ pf.writer' > pf.writer]_vars
  /\ [](pfSettled /\ pf.latestOk => pf.region = pf.currentVariant)

\* C2: a response of fetchResults is rendered only if its request id equals
\* requestId at the moment it is rendered; and once every request has
\* settled, if the last issued request succeeded the results container shows
\* what that request rendered.
C2_TokenDiscard ==
  /\ [][sd.writer' # sd.writer =>
          /\ sd.writer' = sd.requestId'
          /\ sd.writer' > sd.writer]_vars
  /\ [](sdSettled /\ sd.latestOk => sd.writer = sd.requestId)

\* C3: applyFilters discards the response of an earlier call once a later
\* call has been merged: the call whose response is merged never goes back
\* to an earlier one, so once every call has settled, if the last issued
\* call's response was merged, the regions are the ones that call merged.
C3_TokenDiscard ==
  /\ [][fd.writer' # fd.writer => fd.writer' > fd.writer]_vars
  /\ [](fdSettled /\ fd.latestOk => fd.writer = fd.applies)

\* C4: once a burst of debouncedUpdate calls, each made less than 300 ms after
\* the previous one, has no timer pending any more, updateItem has been called
\* by the timer exactly once since the burst began, with the key and quantity
\* of the last call, and not at all while the timer is pending; the same for
\* onInput and fetchResults when the last query has at least 2 characters.
C4_Coalescing ==
  /\ (ci.attached /\ ci.burstLast # <<>>) =>
        IF Pending("cart-items") # {} THEN ci.burstRuns = <<>>
        ELSE ci.burstRuns = ci.burstLast
  /\ (sd.attached /\ sd.burstLast # <<>> /\ Len(sd.burstLast[1]) >= MinQueryLength) =>
        IF Pending("search") # {} THEN sd.burstRuns = <<>>
        ELSE sd.burstRuns = sd.burstLast

\* C4 witness: a burst of two quantity changes and a burst of two inputs have
\* each run their command once, with the arguments of the last call
C4_Witness ==
  /\ ci.burstCalls = 2 /\ ci.burstRuns = ci.burstLast /\ ci.burstRuns # <<>>
  /\ sd.burstCalls = 2 /\ sd.burstRuns = sd.burstLast /\ sd.burstRuns # <<>>

\* C5: a debouncedUpdate(k, q) leaves a pending update for another key k'
\* pending, with its own arguments and its own deadline.
C5_PerKey ==
  [][\A t \in Pending("cart-items") :
       (\E n \in timers' \ timers :
           n.owner = "cart-items" /\ n.left = Delay /\ n.args.key # t.args.key)
         => \E u \in timers' : u.owner = "cart-items" /\ u.args = t.args /\ u.left = t.left
    ]_vars

C7_Idempotence ==
  /\ seq.phase = "oo" => Observable(dom, seq.o) = seq.snap
  /\ seq.phase = "ooc" => dom.activeElement = seq.E
  /\ seq.phase = "cc" => Observable(dom, seq.o) = seq.snap
  /\ \A o \in DOMAIN dom.overlay : Observable(dom, o).listeners <= 1

cartUpdatedPublished ==
  /\ dispatched' # <<>>
  /\ dispatched'[1].kind = "cart:updated"
  /\ cd.attached
  /\ ~dom.overlay["cart"].isOpen

cartDomUnchanged ==
  /\ cd'.body = cd.body
  /\ cd'.footer = cd.footer
  /\ cd'.count = cd.count

\* C8 as stated: whenever 'cart:updated' is published while the cart drawer
\* is closed, stale becomes true and the body, footer and count are unchanged.
C8_StaleMarking ==
  [][cartUpdatedPublished => cd'.stale /\ cartDomUnchanged]_vars

\* C8: whenever 'cart:updated' is published without a bundled 'cart-drawer'
\* section while the cart drawer is closed, stale becomes true and the body,
\* footer and count are unchanged.
C8_StaleMarkingWithoutSection ==
  [][(cartUpdatedPublished /\ ~dispatched'[1].section)
        => cd'.stale /\ cartDomUnchanged /\ cd'.refreshes = cd.refreshes]_vars

\* C8 witness: the closed drawer, showing a cart it rendered earlier, has just
\* been marked stale by a 'cart:updated' without a section
C8_Witness ==
  /\ cd.stale
  /\ ~dom.overlay["cart"].isOpen
  /\ Len(dispatched) = 1
  /\ dispatched[1].kind = "cart:updated" /\ ~dispatched[1].section
  /\ cd.body \in Carts

\* C9: in a step that takes the drawer from closed to open, either by open()
\* alone or by the open() that follows the refresh of _onItemAdded: if stale
\* was true (when open() was called, or when the 'cart:item-added' handler
\* started), exactly one section fetch is issued on that way to open and stale
\* ends false; and an open() with stale false issues no fetch.
C9_StaleConsumption ==
  [][(cd.attached /\ ~dom.overlay["cart"].isOpen /\ dom'.overlay["cart"].isOpen) =>
        LET handler == {r \in RefreshIds : /\ cd.refresh[r].pc \in {"fetch", "text"}
                                           /\ cd'.refresh[r].pc = "done"
                                           /\ cd.refresh[r].thenOpen}
            issued == cd'.refreshes - cd.refreshes
        IN IF handler = {}
             THEN IF cd.stale THEN issued = 1 /\ ~cd'.stale ELSE issued = 0
             ELSE \A r \in handler :
                    cd.refresh[r].staleAtStart => (1 + issued = 1 /\ ~cd'.stale)
    ]_vars

\* C10: when handleSubmit reads the body of a non-success response and the
\* body has a description D, [data-error] ends with textContent D and
\* hidden = false; and no step of a submit that ends in the error branch
\* dispatches a cart event.
C10_ErrorShown ==
  [][\A s \in SubmitIds :
       /\ (pf.submit[s].pc = "errjson" /\ pf'.submit[s].pc = "done"
             /\ pf'.body \in Descs /\ pf.errorContainer)
            => pf'.error = [text |-> pf'.body, hidden |-> FALSE]
       /\ (pf'.submit[s].pc # pf.submit[s].pc
             /\ (pf.submit[s].pc = "errjson" \/ pf'.submit[s].pc \in {"fetch", "errjson"}))
            => NoCartEvent(dispatched')
    ]_vars

\* C10 witness: a submit has ended in the error branch with a description,
\* which [data-error] shows, and nothing was dispatched
C10_Witness ==
  /\ pf.body \in Descs
  /\ pf.error = [text |-> pf.body, hidden |-> FALSE]
  /\ \E s \in SubmitIds : pf.submit[s].pc = "done"
  /\ dispatched = <<>>

\* C11: the step of handleSubmit that reads the body of a 2xx response
\* dispatches exactly one 'cart:item-added' carrying the items, and a connected
\* cart drawer issues one section fetch in that step; and the step that
\* applies that fetch's response leaves the drawer open without issuing
\* another section fetch.
C11_AddToCartSuccess ==
  [][/\ \A s \in SubmitIds :
          (pf.attached /\ pf.submit[s].pc = "json" /\ pf'.submit[s].pc = "done"
             /\ pf'.body = "items")
            => /\ dispatched' = <<ItemAdded>>
               /\ cd.attached => cd'.refreshes = cd.refreshes + 1
     /\ \A r \in RefreshIds :
          (cd.attached /\ cd.refresh[r].pc = "text" /\ cd.refresh[r].thenOpen
             /\ cd'.refresh[r].pc = "done" /\ cd'.body # cd.body)
            => /\ dom'.overlay["cart"].isOpen
               /\ cd'.refreshes = cd.refreshes
    ]_vars

\* C12: when 'cart:updated' carries a 'cart-drawer' section (markup holding a
\* <cart-drawer> element), the drawer issues no fetch, its body shows the
\* incoming body, and afterwards its footer is present and not hidden exactly
\* when the incoming fragment holds a footer, whose content it then shows.
C12_BundledUpdate ==
  [][(/\ dispatched' # <<>>
      /\ dispatched'[1].kind = "cart:updated"
      /\ dispatched'[1].section
      /\ dispatched'[1].html.drawer
      /\ cd.attached)
       => LET html == dispatched'[1].html
          IN /\ cd'.refreshes = cd.refreshes
             /\ cd'.refresh = cd.refresh
             /\ cd'.body = html.cart
             /\ (cd'.footer.exists /\ ~cd'.footer.hidden) <=> html.footer
             /\ html.footer => cd'.footer.cart = html.cart
    ]_vars

\* C12 witness: a footer that an earlier bundled update had hidden is shown
\* again by a bundled update whose fragment holds a footer
C12_Witness ==
  /\ Len(dispatched) = 1
  /\ dispatched[1].kind = "cart:updated" /\ dispatched[1].section
  /\ dispatched[1].html = [cart |-> "B", drawer |-> TRUE, footer |-> TRUE]
  /\ cd.body = "B"
  /\ cd.footer = [exists |-> TRUE, hidden |-> FALSE, cart |-> "B"]
  /\ cd.count = "B"
  /\ cd.refreshes = 0

C14_QuickAddFailure ==
  [][\A a \in AddIds :
       /\ (qa # Absent /\ qa.add[a].pc \in {"fetch", "errjson"} /\ qa'.add[a] = Returned)
            => /\ dispatched' = <<>>
               /\ qa.link => qa'.navigated = "product"
               /\ qa'.button = [disabled |-> FALSE, loading |-> FALSE]
       /\ (qa # Absent /\ qa.add[a].pc = "json" /\ qa'.add[a] = Returned
              /\ qa'.body = "items")
            => /\ dispatched' = <<ItemAdded>>
               /\ qa'.navigated = qa.navigated
               /\ qa'.button = [disabled |-> FALSE, loading |-> FALSE]
    ]_vars

\* C14 witness: the only quick-add request has failed; the page navigates to
\* the card's link, the button is reset and the cart drawer and the cart icon
\* have issued no fetch
C14_Witness ==
  /\ qa # Absent /\ qa.link
  /\ qa.adds = 1 /\ qa.add[1] = Returned
  /\ qa.navigated = "product"
  /\ qa.button = [disabled |-> FALSE, loading |-> FALSE]
  /\ dispatched = <<>>
  /\ cd.refreshes = 0 /\ icon.fetches = 0

\* C15: when the /cart/change.js request of updateItem fails (the fetch
\* rejects, the response is not ok, or its body cannot be read), no event is
\* dispatched, the line-item markup is unchanged, the element's [data-error]
\* region (when it has one) is visible with a non-empty message, 'is-loading'
\* is removed and no other component, timer or document state changes; a
\* request that does not fail dispatches exactly one 'cart:updated', carrying
\* the cart and, when the response bundles one, the section.
updateFailed ==
  /\ dispatched' = <<>>
  /\ ci'.items = ci.items
  /\ ci.errorEl => ~ci'.error.hidden /\ ci'.error.text # ""
  /\ ~ci'.loading
  /\ UNCHANGED <<pf, sd, cd, fd, qa, icon, pg, dom, timers>>

C15_QuantityChangeFailure ==
  [][\A u \in UpdateIds :
       /\ (ci # Absent /\ ci.update[u].pc = "fetch" /\ ci'.update[u] = Returned)
            => updateFailed
       /\ (ci # Absent /\ ci.update[u].pc = "json" /\ ci'.update[u] = Returned)
            => \/ updateFailed
               \/ /\ Len(dispatched') = 1
                  /\ dispatched'[1].kind = "cart:updated"
                  /\ dispatched'[1].cart \in Carts
                  /\ dispatched'[1].section => dispatched'[1].html.cart = dispatched'[1].cart
    ]_vars

\* C15 witness: on the cart page the only quantity change failed; the error
\* region shows the message while the markup, the closed drawer and the cart
\* icon are as the page was loaded
C15_Witness ==
  /\ ci # Absent /\ ci.errorEl
  /\ ci.updates = 1 /\ ci.update[1] = Returned
  /\ ci.error = [text |-> UpdateFailedMsg, hidden |-> FALSE]
  /\ ci.items = "page-load"
  /\ ~ci.loading
  /\ dispatched = <<>>
  /\ cd = CartDrawer_connectedCallback(TRUE)
  /\ icon = CartIcon_connectedCallback

\* C16: once the cart drawer, the cart icon or the gallery has been removed
\* from the page, an event published on document finds no listener of that
\* component for its type, in whatever order the element was attached,
\* initialised by the late script load and removed.
Removed(x) == x # Absent /\ ~x.attached

C16_EventBusTeardown ==
  [][dispatched' # <<>>
       => /\ Removed(cd) => ~Listening(dom, "cart", dispatched'[1].kind)
          /\ Removed(icon) => ~Listening(dom, "icon", dispatched'[1].kind)
          /\ Removed(pg) => ~Listening(dom, "gallery", dispatched'[1].kind)
    ]_vars

\* the same for the two components whose listeners are registered in
\* connectedCallback
CartListenersRemoved ==
  [][dispatched' # <<>>
       => /\ Removed(cd) => ~Listening(dom, "cart", dispatched'[1].kind)
          /\ Removed(icon) => ~Listening(dom, "icon", dispatched'[1].kind)
    ]_vars

\* C17: once an overlay or <cart-items> has been removed from the page, no
\* keydown listener of document and no popstate listener of window belongs to
\* it, and none of its debounce timers is pending or fires.
ListenersRemoved(o) ==
  /\ o \notin Range(dom.keydown)
  /\ ~Listening(dom, o, "popstate")

C17_OverlayTeardown ==
  /\ [](\A o \in dom.detached : ListenersRemoved(o))
  /\ [](Removed(sd) => Pending("search") = {})
  /\ [](Removed(ci) => Pending("cart-items") = {})

\* what the teardown does undo: the mobile menu's keydown listener, the filter
\* drawer's popstate listener and the search drawer's debounce timer
TeardownDone ==
  /\ "menu" \in dom.detached => "menu" \notin Range(dom.keydown)
  /\ \A o \in dom.detached : ~Listening(dom, o, "popstate")
  /\ Removed(sd) => Pending("search") = {}

\* C18: while an overlay is open, a Tab or Shift+Tab keypress leaves focus on
\* one of the overlay's focusable descendants.
Contained(d) ==
  \A o \in DOMAIN d.overlay :
    d.overlay[o].isOpen => d.activeElement \in Range(Focusables(o))

C18_FocusContainment ==
  [][(Tab(TRUE) \/ Tab(FALSE)) => Contained(dom')]_vars

\* the same for a keypress made while focus is inside the overlay: the wrap at
\* the first and at the last element
TabWrapsInside ==
  [][((Tab(TRUE) \/ Tab(FALSE)) /\ Contained(dom)) => Contained(dom')]_vars

\* C19: for each overlay the is-open class is present exactly when aria-hidden
\* is 'false', exactly when the overlay's class is on body, exactly when its
\* trigger (if it has one) has aria-expanded 'true' and exactly when its
\* keydown listener is registered on document; and an Escape keypress leaves
\* every overlay that was open closed.
OpenStateConsistent(d) ==
  \A o \in DOMAIN d.overlay :
    LET v == d.overlay[o]
    IN /\ v.isOpen <=> v.ariaHidden = "false"
       /\ v.isOpen <=> BodyClass(o) \in d.bodyClasses
       /\ HasTrigger(o) => (v.isOpen <=> v.expanded = "true")
       /\ v.isOpen <=> o \in Range(d.keydown)

C19_OpenStateConsistency ==
  /\ [] OpenStateConsistent(dom)
  /\ [][(Keydown("Escape", FALSE) \/ Keydown("Escape", TRUE))
          => \A o \in DOMAIN dom.overlay : ~dom'.overlay[o].isOpen]_vars

\* C19 witness: the cart drawer, opened and re-rendered from a bundled section
\* while open, is open in every respect
C19_Witness ==
  /\ "cart" \in DOMAIN dom.overlay
  /\ dom.overlay["cart"].isOpen
  /\ dom.overlay["cart"].ariaHidden = "false"
  /\ "drawer-open" \in dom.bodyClasses
  /\ "cart" \in Range(dom.keydown)
  /\ cd.body = "B"

\* C20: when applyFilters merges a response, swap and swapDrawer give a live
\* region the incoming content exactly when the live section and the incoming
\* document both hold an element for its selector; every other region keeps
\* its content, and the set of live regions, the section id and every other
\* component are left as they were.
C20_RegionMergeFrame ==
  [][\A a \in ApplyIds :
       (fd # Absent /\ fd.apply[a].pc = "text" /\ fd'.apply[a] = Returned /\ fd'.writer = a)
         => /\ \A g \in Regions :
                 fd'.region[g] = IF g \in fd.live /\ g \in fd'.doc
                                   THEN fd.apply[a].url.filter ELSE fd.region[g]
            /\ fd'.live = fd.live /\ fd'.sectionId = fd.sectionId
            /\ UNCHANGED <<pf, sd, ci, cd, qa, icon, pg, timers>>
    ]_vars

\* C20 witness: a response without [data-active-filters] and .filter-footer
\* was merged into a section holding every region: the regions it holds show
\* the new filter state, the two it lacks still show the old one
C20_Witness ==
  /\ fd # Absent
  /\ fd.live = Regions
  /\ fd.writer = 1
  /\ fd.doc = Regions \ {"[data-active-filters]", ".filter-footer"}
  /\ fd.region["[data-products]"] = "red"
  /\ fd.region[".filter-body"] = "red"
  /\ fd.region["[data-active-filters]"] = "all"
  /\ fd.region[".filter-footer"] = "all"


\* ----------------------------------------------------------------------
\* C21  History update: the step of applyFilters(url) that merges a
\* response pushes a history entry exactly when url without section_id
\* differs from the location at that moment, and the entry it pushes is that
\* URL, which becomes the location; a call made by the popstate handler whose
\* URL is still the location pushes none; a call whose fetch fails, whose
\* response is not ok or whose body cannot be read leaves history and
\* location as they were.  A push moves the index; the entries can read the
\* same as before when the entry pushed replaces an equal forward entry.
historyPushed == fd'.history # fd.history \/ fd'.index # fd.index

filterOpen(d) == d.overlay["filter"].isOpen
cartOpen(d) == d.overlay["cart"].isOpen

C22_CloseAfterApply ==
  [][/\ \A a \in ApplyIds :
          /\ (fd # Absent /\ fd.apply[a].pc = "text" /\ fd'.apply[a] = Returned /\ fd'.writer = a)
               => /\ ~filterOpen(dom')
                  /\ "filter" \notin Range(dom'.keydown)
                  /\ fd'.closedBy = IF filterOpen(dom) THEN a ELSE fd.closedBy
          /\ (fd # Absent /\ fd'.apply[a] = Returned
                /\ (fd.apply[a].pc = "fetch" \/ (fd.apply[a].pc = "text" /\ fd'.writer # a)))
               => dom' = dom
     /\ \A html \in Fragments :
          (cd # Absent /\ html.drawer /\ dispatched' = <<CartUpdated(TRUE, html)>>)
             => (cd'.body = html.cart /\ cartOpen(dom') = cartOpen(dom))
     /\ \A r \in RefreshIds, html \in Fragments :
          (html.drawer /\ CartDrawer_refresh_text(r, html))
             => /\ cartOpen(dom) => cartOpen(dom')
                /\ cartOpen(dom') = (cartOpen(dom) \/ cd.refresh[r].thenOpen)
    ]_vars

\* a merge closed the filter drawer and the drawer is still closed
C22_Witness ==
  /\ fd # Absent /\ fd.closedBy > 0 /\ fd.writer = fd.closedBy
  /\ fd.apply[fd.closedBy] = Returned
  /\ ~filterOpen(dom) /\ "filter-drawer-open" \notin dom.bodyClasses

\* a fragment replaced the body of the open cart drawer under the focused
\* line item, and the drawer is still open
C22_CartStaysOpen ==
  /\ cd # Absent /\ cd.body \in Carts /\ cartOpen(dom)
  /\ dom.activeElement = "body"

\* ----------------------------------------------------------------------
\* C23  Minimum-length gate: an onInput whose trimmed value is shorter than
\* MinQueryLength leaves no debounce timer of the search drawer pending,
\* starts no fetchResults call, empties [data-results] and hides
\* [data-empty]; and as long as the last input was such a value no timer of
\* the drawer is pending, so no request is issued for it.
shortQuery(value) == Len(Trim(value)) < MinQueryLength

C23_MinimumLengthGate ==
  /\ []((sd # Absent /\ sd.burstLast # <<>> /\ Len(sd.burstLast[1]) < MinQueryLength)
          => Pending("search") = {})
  /\ [][\A value \in InputValues :
           (shortQuery(value) /\ SearchDrawer_onInput(value))
             => /\ {t \in timers' : t.owner = "search"} = {}
                /\ sd'.results = <<>> /\ sd'.empty.hidden
                /\ sd'.requestId = sd.requestId /\ sd'.fetch = sd.fetch
                /\ sd'.loading = sd.loading
      ]_vars

\* a timer was scheduled, never ran, and a short input cancelled it
C23_Witness ==
  /\ sd # Absent /\ sd.debounceTimer # Null /\ sd.requestId = 0
  /\ sd.burstLast # <<>> /\ Len(sd.burstLast[1]) < MinQueryLength
  /\ sd.burstCalls = 2
  /\ timers = {} /\ sd.results = <<>> /\ sd.empty.hidden

\* ----------------------------------------------------------------------
\* C24  Refresh success clears stale: the step that applies the response of a
\* refresh() leaves stale false and the drawer open or closed as it was; for
\* the refresh started by _onItemAdded, whose open() runs right after it,
\* that open() finds stale false and issues no fetch.  A refresh that fails
\* leaves stale as it was.
C24_RefreshClearsStale ==
  [][\A r \in RefreshIds :
       /\ \A html \in Fragments :
            (html.drawer /\ cd # Absent /\ cd.refresh[r].pc = "text"
               /\ CartDrawer_refresh_text(r, html))
              => IF cd.refresh[r].thenOpen
                   THEN cd'.refreshes = cd.refreshes
                   ELSE ~cd'.stale /\ cartOpen(dom') = cartOpen(dom)
       /\ (cd # Absent /\ cd.refresh[r].pc \in {"fetch", "text"} /\ ~cd.refresh[r].thenOpen
             /\ (CartDrawer_refresh_reject(r) \/ CartDrawer_refresh_response(r, FALSE)
                   \/ CartDrawer_refresh_textReject(r)))
            => cd'.stale = cd.stale
    ]_vars

\* ----------------------------------------------------------------------
\* C25  Single-slot debounce timer: in every reachable state <cart-items> has
\* at most one pending debounce timer and so has the search drawer; and when
\* a call schedules a new timer, no timer its owner had pending before the
\* call is pending after it.
scheduled(owner) == {n \in timers' \ timers : n.owner = owner /\ n.left = Delay}

C25_SingleSlotTimer ==
  /\ [](\A owner \in {"cart-items", "search"} : Cardinality(Pending(owner)) <= 1)
  /\ [][\A owner \in {"cart-items", "search"} :
          scheduled(owner) # {}
            => /\ \A t \in Pending(owner) : t \notin timers' \/ t \in scheduled(owner)
               /\ {n \in timers' : n.owner = owner} = scheduled(owner)
               /\ \A n \in scheduled(owner) : n.held
      ]_vars

\* each consumer scheduled a timer less than 300 ms after its previous call,
\* and holds exactly the new one
C25_Witness ==
  /\ ci.attached /\ ci.burstCalls = 2
  /\ \E t \in timers : Pending("cart-items") = {t} /\ <<t.args>> = ci.burstLast /\ t.held
  /\ sd.attached /\ sd.burstCalls = 2
  /\ \E t \in timers : Pending("search") = {t} /\ <<t.args>> = sd.burstLast /\ t.held

\* ----------------------------------------------------------------------
\* C26  Synchronous delivery: in the state that follows the dispatch of
\* 'cart:updated' with a bundled section by updateItem, the cart drawer shows
\* the section's cart in its body, count and footer and the cart icon shows
\* the event's cart, each if its listener was registered; the same step takes
\* updateItem to its end, and processes no other response and no timer:
\* every other call in flight is where it was, no fetch was issued and the
\* pending timers are unchanged.
bundled(evs) == evs # <<>> /\ evs[1].kind = "cart:updated" /\ evs[1].section

C26_SynchronousDelivery ==
  /\ []((bundled(dispatched) /\ cd # Absent /\ icon # Absent)
          => /\ (Listening(dom, "cart", "cart:updated") /\ dispatched[1].html.drawer)
                  => /\ cd.body = dispatched[1].cart /\ cd.count = dispatched[1].cart
                     /\ cd.footer.hidden = ~dispatched[1].html.footer
             /\ Listening(dom, "icon", "cart:updated") => icon.count = dispatched[1].cart)
  /\ [][bundled(dispatched')
          => /\ \E u \in UpdateIds :
                  /\ ci.update[u].pc = "json" /\ ci'.update[u] = Returned
                  /\ \A v \in UpdateIds \ {u} : ci'.update[v] = ci.update[v]
             /\ timers' = timers
             /\ cd'.refresh = cd.refresh /\ cd'.refreshes = cd.refreshes
             /\ cd'.stale = cd.stale /\ cd'.loading = cd.loading
             /\ icon'.fetch = icon.fetch /\ icon'.fetches = icon.fetches
             /\ cartOpen(dom') = cartOpen(dom)
      ]_vars

\* the event was dispatched while a section fetch of the drawer, a /cart.js
\* fetch of the icon and another updateItem call were in flight, and both
\* handlers have run
C26_Witness ==
  /\ bundled(dispatched)
  /\ cd.body = dispatched[1].cart /\ icon.count = dispatched[1].cart
  /\ \E r \in RefreshIds : cd.refresh[r].pc \in {"fetch", "text"}
  /\ \E k \in CountIds : icon.fetch[k].pc \in {"fetch", "json"}
  /\ \E u \in UpdateIds : ci.update[u].pc \in {"fetch", "json"}

\* ----------------------------------------------------------------------
\* C27  Cart drawer never shows superseded content: the response of a
\* refresh() is not applied once a fragment has been applied that found the
\* call in flight, be it the section bundled with 'cart:updated' or the
\* response of another refresh().
C27_NoSupersededContent ==
  [][\A r \in RefreshIds, html \in Fragments :
       (html.drawer /\ cd # Absent /\ cd.refresh[r].pc = "text"
          /\ CartDrawer_refresh_text(r, html))
         => r \notin cd.superseded
    ]_vars

\* ----------------------------------------------------------------------
\* C28  Cart icon count stays in sync: the response of a fetchCartCount call
\* does not change the displayed count once a newer count has been shown that
\* found the call in flight, be it the item_count of a 'cart:updated' or the
\* response of a fetchCartCount call issued later.
C28_CartIconInSync ==
  [][\A k \in CountIds, cart \in Carts :
       (icon # Absent /\ icon.fetch[k].pc = "json" /\ CartIcon_fetchCartCount_json(k, cart))
         => (k \in icon.overtaken => icon'.count = icon.count)
    ]_vars

\* ----------------------------------------------------------------------
\* C29  Quantity clamping: after any sequence of clicks on the +/- buttons
\* and of manual edits, the value a bubbling change listener reads from the
\* input is an integer within [min, max], the input shows that integer, and
\* every quantity <cart-items> schedules or sends for a quantity change is
\* within [min, max].
InRange(x) == x # NaN /\ x[1] \in qs.min..qs.max

C29_QuantityClamping ==
  qs # Absent =>
    /\ qs.observed # <<>> =>
          /\ InRange(qs.observed[1])
          /\ qs.value = String(qs.observed[1])
    /\ \A t \in Pending("cart-items") : InRange(t.args.quantity)
    /\ ci # Absent =>
          \A u \in UpdateIds : ci.update[u].pc = "fetch" => InRange(ci.update[u].quantity)

\* an edit to a text that is not a number was observed as min, an update was
\* sent, and another quantity is scheduled
C29_Witness ==
  /\ qs # Absent /\ qs.observed = <<<<qs.min>>>>
  /\ ci # Absent /\ \E u \in UpdateIds : ci.update[u].pc = "fetch"
  /\ Pending("cart-items") # {}

\* without a max attribute the value was clamped to the default maximum
C29_DefaultMax ==
  qs # Absent /\ qs.max = DefaultMax /\ qs.observed = <<<<DefaultMax>>>>

\* ----------------------------------------------------------------------
\* C30  Hotspot popovers: in every state reachable by mouseenter, mouseleave,
\* marker clicks and outside clicks, at most one marker has the is-active
\* class, activeId is the data-hotspot of that marker, and activeId is null
\* when no marker is active; the popover of a marker that is not active is
\* not shown.
ActiveMarkers == {m \in Markers : hs.marker[m].active}

C30_HotspotPopovers ==
  hs # Absent =>
    /\ Cardinality(ActiveMarkers) <= 1
    /\ \A m \in ActiveMarkers : hs.activeId = hs.marker[m].id
    /\ ActiveMarkers = {} => hs.activeId = Null
    /\ \A m \in Markers \ ActiveMarkers : hs.marker[m].ariaHidden # "false"

\* one marker is active after another one was: the other's popover has been
\* hidden by hide()
C30_Witness ==
  /\ hs # Absent
  /\ \E m \in ActiveMarkers :
        /\ hs.activeId = hs.marker[m].id /\ hs.marker[m].ariaHidden = "false"
        /\ \E n \in Markers \ {m} : hs.marker[n].ariaHidden = "true"

\* ----------------------------------------------------------------------
\* C31  Announcement dismissal: a dismiss click whose setItem succeeds stores
\* the bar's key and no other, and a stored key is never removed; an attach
\* of a bar whose key is stored and whose getItem does not throw removes the
\* bar within connectedCallback; an attach of a bar whose key is not stored
\* leaves it shown; when getItem throws the bar is shown, and a bar whose
\* dismiss button was clicked, setItem throwing or not, has a fallback timer
\* pending while it is attached and ends removed unless the page is left.
stored == dom.localStorage

C31_AnnouncementDismissal ==
  /\ [][/\ stored \subseteq stored'
        /\ \A setThrows \in BOOLEAN :
             AnnouncementBar_click(setThrows)
               => /\ stored' = IF setThrows THEN stored ELSE stored \cup {getDismissKey(ab.markup)}
                  /\ ab'.opacity = "0" /\ ab'.fallback > 0
        /\ \A markup \in BarMarkups, getThrows \in BOOLEAN :
             AnnouncementBar_attach(markup, getThrows)
               => /\ (getDismissKey(markup) \in stored /\ ~getThrows) => ~ab'.attached
                  /\ (getDismissKey(markup) \notin stored \/ getThrows)
                       => (ab'.attached /\ ab'.listening = markup.button)
                  /\ stored' = stored
       ]_vars
  /\ [](ab.attached /\ ab.clicks > 0 => ab.fallback > 0)
  /\ ((ab.attached /\ ab.clicks > 0) ~> (~ab.attached \/ ab.clicks = 0))

\* a bar was dismissed, and the bar with the same key on a later page was
\* removed by its connectedCallback
C31_Witness ==
  /\ ~ab.attached /\ ab.read = "found" /\ ab.clicks = 0
  /\ ab.storageKey \in stored

\* a bar whose key was never stored is shown while another key is stored
C31_OtherKeyShown ==
  /\ ab.attached /\ ab.read = "none" /\ stored # {} /\ ab.storageKey \notin stored

\* a bar was removed after a dismiss click whose setItem threw
C31_RemovedWithoutStorage ==
  /\ ~ab.attached /\ ab.clicks > 0 /\ ab.wrote = "threw" /\ ab.read = "threw"

\* ----------------------------------------------------------------------
\* C32  Last action wins for a cart line: no debounce timer runs updateItem
\* with a non-zero quantity for a line item whose last user action was a
\* click on its remove button.
C32_LastActionWins ==
  [][\A t \in timers :
       (CartItems_debounceFires(t) /\ "lastRemoved" \in DOMAIN ci)
         => ~(t.args.key \in ci.lastRemoved /\ t.args.quantity # 0)
    ]_vars

\* ----------------------------------------------------------------------
\* C33  Cleared search stays cleared: while the last input of the search
\* field was a query shorter than 2 characters, [data-results] is empty.
C33_ClearedStaysCleared ==
  (sd # Absent /\ sd.burstLast # <<>> /\ Len(sd.burstLast[1]) < MinQueryLength)
    => sd.results = <<>>

\* ----------------------------------------------------------------------
\* C34  Drawer opens after add-to-cart whatever the refresh outcome: the step
\* in which the refresh started by _onItemAdded settles (response applied,
\* response not ok, fetch or body rejected) leaves the cart drawer open; no
\* later step of the handler would open it.
C34_OpensAfterAdd ==
  [][\A r \in RefreshIds :
       (/\ cd # Absent
        /\ cd.refresh[r].pc \in {"fetch", "text"}
        /\ cd.refresh[r].thenOpen
        /\ cd'.refresh[r] = Returned)
         => cartOpen(dom')
    ]_vars

\* ----------------------------------------------------------------------
\* C35  Cart-items loading indicator terminates: on the cart page, the step
\* in which an updateItem call settles while no other call is in flight and
\* no debounce timer is pending leaves the element without the is-loading class; nothing that is still
\* pending would remove it later.
updatesInFlight(c) == {u \in UpdateIds : c.update[u].pc \in {"fetch", "json"}}

C35_LoadingTerminates ==
  [][\A u \in UpdateIds :
       (/\ ci # Absent /\ ~ci.insideDrawer
        /\ u \in updatesInFlight(ci)
        /\ ci'.update[u] = Returned
        /\ updatesInFlight(ci') = {}
        /\ {t \in timers' : t.owner = "cart-items"} = {})
         => ~ci'.loading
    ]_vars

\* ----------------------------------------------------------------------
\* C36  Single in-flight add: at most one /cart/add.js request of the product
\* form is awaiting its response at any time.
addsInFlight(p) == {s \in SubmitIds : p.submit[s].pc = "fetch"}

C36_SingleInFlightAdd ==
  pf # Absent => Cardinality(addsInFlight(pf)) <= 1

\* the same for a quick-add button
C36_SingleInFlightQuickAdd ==
  qa # Absent => Cardinality({a \in AddIds : qa.add[a].pc = "fetch"}) <= 1

\* ----------------------------------------------------------------------
\* C37  Two overlays open at once: when overlay `first` was opened from an
\* element of the page and overlay `second` was opened while focus was
\* inside `first`, one Escape keydown leaves both closed and focus on the
\* element that had it before `first` opened.
C37_TwoOverlaysEscape ==
  [][\A first, second \in DOMAIN dom.overlay :
       (/\ dom.keydown = <<first, second>>
        /\ first # second
        /\ dom.overlay[first].isOpen /\ dom.overlay[second].isOpen
        /\ dom.overlay[first].previouslyFocused \in PageElements
        /\ dom.overlay[second].previouslyFocused \in Range(Focusables(first))
        /\ Keydown("Escape", FALSE))
         => /\ ~dom'.overlay[first].isOpen /\ ~dom'.overlay[second].isOpen
            /\ dom'.activeElement = dom.overlay[first].previouslyFocused
    ]_vars

\* ----------------------------------------------------------------------
\* C38  URL and grid agree: once a response has been merged, whenever no
\* applyFilters call is in flight the location is the canonical URL of the
\* response merged last.
appliesInFlight(f) == {a \in ApplyIds : f.apply[a].pc \in {"fetch", "text"}}

C38_UrlAndGridAgree ==
  (fd # Absent /\ "applied" \in DOMAIN fd /\ fd.applied # <<>> /\ appliesInFlight(fd) = {})
    => fd.location = fd.applied[1]

\* ----------------------------------------------------------------------
\* C39  Loading indicator covers in-flight work: the cart drawer has the
\* is-loading class while its most recently issued refresh is in flight, and
\* does not have it once that refresh has settled.
callPending(call) == call.pc \notin {"new", "done"}

C39_LoadingCoversInFlight ==
  (cd # Absent /\ cd.refreshes > 0)
    => (cd.loading <=> callPending(cd.refresh[cd.refreshes]))

\* the same for the section of the filter drawer and applyFilters
C39_FilterDrawerLoading ==
  (fd # Absent /\ fd.applies > 0)
    => (fd.loading <=> callPending(fd.apply[fd.applies]))

\* the same for the product form and renderVariantSections
C39_ProductFormLoading ==
  (pf # Absent /\ pf.renderRequestId > 0)
    => (pf.loading <=> callPending(pf.render[pf.renderRequestId]))

\* the same for the search drawer and fetchResults
C39_SearchDrawerLoading ==
  (sd # Absent /\ sd.requestId > 0)
    => (sd.loading <=> callPending(sd.fetch[sd.requestId]))
====
